---- MODULE Spec2Model ----
(***************************************************************************)
(* Identity matching, identity store, face tracker and event dispatch of   *)
(* the Capstone recognition system (recognition_core.py,                   *)
(* integrated_recognition_system.py, ai_facial_recognition.py).            *)
(*                                                                         *)
(* Numbers: distances, thresholds and confidences are fixed-point values   *)
(* in units of 1/Scale (Scale units = 1.0); times are in whole seconds;    *)
(* pixel coordinates are integers.  Python's None is the string None for   *)
(* string-valued fields and the empty sequence for optional numbers.       *)
(***************************************************************************)
EXTENDS Integers, Sequences, FiniteSets, TLC

VARIABLES
    \* FaceRecognitionEngine (recognition_core.py)
    known_encodings,      \* self._known_encodings
    known_names,          \* self._known_names: <<banner_id, display_name>>
    match_threshold,      \* self.match_threshold
    lastMatch,            \* the last match_face_encoding call and its result
    \* cache directory and file (recognition_core.py / ai_facial_recognition.py)
    cacheDir,             \* "ok" | "readonly" | "blocked"
    cacheFile,            \* AbsentFile | CorruptFile | [encodings, names]
    lastLoad,             \* the last load/refresh call: inputs and outcome
    \* IntegratedRecognitionSystem (integrated_recognition_system.py)
    clock,                \* time.time(), whole seconds
    face_tracking,        \* self.face_tracking, in dict (insertion) order
    last_recognition_time, \* self.last_recognition_time / run_camera_loop's local
    pc,                   \* position in the loop body: "track" | "events"
    lastUpdate,           \* the last update_face_tracking call made on its own:
                          \* its time, the track ids it assigned, the tracks it removed
    lastEvents,           \* the events dispatched by the last loop iteration
    prevEventTime,        \* time of the event before the latest one: <<>> or <<t>>
    feed,                 \* history of such calls fed one and the same result
    program,              \* which entry point runs: "core" (recognition_core.py
                          \* engine) or "legacy" (ai_facial_recognition.py, whose
                          \* globals known_encodings/known_names the two engine
                          \* variables then stand for)
    \* HTTP helpers (recognition_core.py)
    FLASK_APP_URL,        \* the module global: the remembered primary base URL
    call,                 \* the log_verification_http / process_order_fulfillment
                          \* call in progress or last finished, and its history
    \* _dispatch_async_events (integrated_recognition_system.py)
    units,                \* the worker threads started so far, in start order
    loopFrames,           \* frames the loop handled while a worker was running
    lastStep,             \* the last step taken: which worker, which call, the response
    \* FaceRecognitionEngine.analyze_frame (recognition_core.py)
    frame_skip,           \* self.frame_skip
    frame_counter,        \* self._frame_counter
    last_refresh,         \* self._last_refresh
    lastAnalyze,          \* the last analyze_frame call: inputs, outcome, call count
    \* run_integrated_system's capture handling (integrated_recognition_system.py)
    camera_backend,       \* self.camera_backend
    failure_count,        \* the local failure_count
    loop_pc,              \* "running" | "stopped" (the while loop was left)
    lastCapture,          \* the last capture attempt and what the loop did with it
    \* save_encodings_cache / load_encodings_cache called on their own
    lastCache,            \* the last such call: the latest save and what a load returned
    \* MovementControlledRecognitionSystem (movement_controlled_recognition.py)
    enable_movement_control, \* self.enable_movement_control
    robot_interface,      \* self.robot_interface: "sim" | None
    is_moving,            \* self.is_moving
    movement_enabled,     \* self.movement_enabled
    last_stop_time,       \* self.last_stop_time
    lastSigns,            \* the last handle_traffic_signs call: what it was given
                          \* and whether the robot was moving when it began
    \* navigation threads of the web application (flask_api/app.py) sharing
    \* controller.face_engine
    nav_threads,          \* the threads set_goal has started, in start order
    engine_loads          \* the (encodings, names) pairs load_encodings returned
                          \* to the shared engine

None == "None"

(***************************************************************************)
(* Bounds of the model.                                                    *)
(***************************************************************************)
MaxKnown == 2       \* longest known set / row list enumerated

(***************************************************************************)
(* Fixed-point scale and the program's constants.                          *)
(***************************************************************************)
Scale == 20                     \* 1.0 = 20 units
MATCH_THRESHOLD == 13           \* 0.65 in units of 1/Scale

\* Embeddings: 2-d integer vectors standing for the 128-d float vectors the
\* encoder returns.  From Origin: Near is at distance 5 (0.25), OnEdgeA and
\* OnEdgeB at exactly 13 (0.65), Far at 21 (1.05 > 1.0).
Embeddings == { <<0, 0>>, <<3, 4>>, <<5, 12>>, <<12, 5>>, <<0, 21>> }

\* The enrolled people: (banner_id, display_name); the second has empty
\* first and last name, so its stripped display name is empty.
People == { <<"B001", "Ada Lovelace">>, <<"B002", "">> }

Thresholds == { 5, MATCH_THRESHOLD, Scale }

RECURSIVE SeqsUpTo(_, _)
SeqsUpTo(S, n) ==
    IF n = 0 THEN { <<>> }
    ELSE LET shorter == SeqsUpTo(S, n - 1)
         IN  shorter \cup { Append(s, x) : s \in { t \in shorter : Len(t) = n - 1 }, x \in S }

\* np.sqrt on a non-negative number, rounded down to the fixed-point grid.
RECURSIVE ISqrtFrom(_, _)
ISqrtFrom(n, r) == IF (r + 1) * (r + 1) > n THEN r ELSE ISqrtFrom(n, r + 1)

ISqrt(n) == ISqrtFrom(n, 0)

\* face_recognition.face_distance for one pair: np.linalg.norm(a - b).
EuclideanDistance(a, b) ==
    ISqrt((a[1] - b[1]) * (a[1] - b[1]) + (a[2] - b[2]) * (a[2] - b[2]))

\* face_recognition.face_distance(known, encoding): one distance per known
\* encoding, in order.
face_distance(encs, encoding) ==
    [i \in 1..Len(encs) |-> EuclideanDistance(encs[i], encoding)]

\* np.min over a non-empty array.
NpMin(distances) ==
    CHOOSE d \in { distances[i] : i \in 1..Len(distances) } :
        \A i \in 1..Len(distances) : d <= distances[i]

\* Mutant of NpArgMin: the last index holding the minimum.
NpArgMinLast(distances) ==
    CHOOSE i \in 1..Len(distances) :
        /\ distances[i] = NpMin(distances)
        /\ \A j \in (i + 1)..Len(distances) : distances[j] # distances[i]

\* np.argmin: the first index holding the minimum (1-based here).
NpArgMin(distances) ==
    CHOOSE i \in 1..Len(distances) :
        /\ distances[i] = NpMin(distances)
        /\ \A j \in 1..(i - 1) : distances[j] # distances[i]

\* Mutant of Max: no clamp, the second argument is returned.
MaxNoClamp(a, b) == b

Max(a, b) == IF a >= b THEN a ELSE b

\* Mutant of MatchTuple: every result is a match.
MatchTupleMatched(name, matched, confidence, banner_id) ==
    [name |-> name, matched |-> TRUE, confidence |-> confidence, banner_id |-> banner_id]

\* A result tuple (name, matched, confidence, banner_id).
MatchTuple(name, matched, confidence, banner_id) ==
    [name |-> name, matched |-> matched, confidence |-> confidence, banner_id |-> banner_id]

\* Mutant of WithinThreshold: the comparison is always true.
WithinThresholdAlways(min_distance, threshold) == TRUE

\* Mutant of WithinThreshold: only a distance equal to the threshold matches.
WithinThresholdExact(min_distance, threshold) == min_distance = threshold

\* recognition_core.py:337, the threshold comparison.
WithinThreshold(min_distance, threshold) == min_distance <= threshold

\* FaceRecognitionEngine.match_face_encoding (recognition_core.py:328-342).
match_face_encoding(encs, names, threshold, encoding) ==
    IF Len(encs) = 0
    THEN MatchTuple("Unknown", FALSE, 0, None)
    ELSE LET distances    == face_distance(encs, encoding)
             min_distance == NpMin(distances)
             best_idx     == NpArgMin(distances)
             confidence   == Max(0, Scale - min_distance)
         IN  IF WithinThreshold(min_distance, threshold) /\ best_idx <= Len(names)
             THEN LET banner_id    == names[best_idx][1]
                      display_name == names[best_idx][2]
                      name         == IF display_name # "" THEN display_name ELSE banner_id
                  IN  MatchTuple(name, TRUE, confidence, banner_id)
             ELSE MatchTuple("Unknown", FALSE, confidence, None)

\* match_face_encoding of ai_facial_recognition.py:192-206: a 3-tuple
\* (name, matched, confidence), strict comparison.
legacy_match_face_encoding(encs, names, threshold, encoding) ==
    IF Len(encs) = 0
    THEN [name |-> "Unknown", matched |-> FALSE, confidence |-> 0]
    ELSE LET distances    == face_distance(encs, encoding)
             min_distance == NpMin(distances)
             best_idx     == NpArgMin(distances)
             confidence   == Max(0, Scale - min_distance)
         IN  IF min_distance < threshold
             THEN LET banner_id    == names[best_idx][1]
                      display_name == names[best_idx][2]
                  IN  [name |-> IF display_name # "" THEN display_name ELSE banner_id,
                       matched |-> TRUE, confidence |-> confidence]
             ELSE [name |-> "Unknown", matched |-> FALSE, confidence |-> confidence]


(***************************************************************************)
(* Identity store: remote MySQL table, local cache file.                   *)
(***************************************************************************)
ENCODING_SIZE == 128            \* expected number of values of an embedding

AbsentFile == [kind |-> "absent"]

CorruptFile == [kind |-> "corrupt"]

\* np.savez_compressed(cache_file, encodings=np.array(list(encodings)),
\* names=np.array(list(names), dtype=object)): the archive holds the two
\* arrays, one row per identity.
NpzFile(encodings, names) ==
    [kind |-> "npz",
     encodings |-> [i \in 1..Len(encodings) |-> encodings[i]],
     names |-> [i \in 1..Len(names) |-> <<names[i][1], names[i][2]>>]]

\* A BLOB of the users table: its length in bytes and the vector whose
\* values it holds.  1024 bytes are 128 float64, 512 bytes 128 float32,
\* 1000 bytes 125 float64 or 250 float32, 0 bytes an empty BLOB.
Blob(n, e) == [nbytes |-> n, payload |-> e]

\* Rows of "SELECT banner_id, first_name, last_name, encoding FROM users".
Rows ==
    { [banner_id |-> "B001", first_name |-> "Ada", last_name |-> "Lovelace",
       encoding |-> Blob(ENCODING_SIZE * 8, <<3, 4>>)],
      [banner_id |-> "B001", first_name |-> "Ada", last_name |-> "Lovelace",
       encoding |-> Blob(0, <<>>)],
      [banner_id |-> "B002", first_name |-> "", last_name |-> "",
       encoding |-> Blob(ENCODING_SIZE * 4, <<5, 12>>)],
      [banner_id |-> "B002", first_name |-> "", last_name |-> "",
       encoding |-> Blob(1000, <<5, 12>>)] }

\* f"{first_name} {last_name}".strip() on the names of Rows.
DisplayName(first_name, last_name) ==
    IF first_name = "" /\ last_name = "" THEN ""
    ELSE IF first_name = "" THEN last_name
    ELSE IF last_name = "" THEN first_name
    ELSE IF first_name = "Ada" /\ last_name = "Lovelace" THEN "Ada Lovelace"
    ELSE "other"

\* The remote store as one call finds it.
DbStates ==
    { [configured |-> FALSE, mode |-> "up", rows |-> <<>>] }
    \cup { [configured |-> TRUE, mode |-> m, rows |-> <<>>] : m \in { "connect_error", "query_error" } }
    \cup { [configured |-> TRUE, mode |-> "up", rows |-> r] : r \in SeqsUpTo(Rows, MaxKnown) }

\* np.frombuffer(raw, dtype) for an element width: raises unless the length
\* is a multiple of the width; otherwise the number of elements.
FromBufferRaises(blob, width) == blob.nbytes % width # 0

FromBufferSize(blob, width) == blob.nbytes \div width

\* Mutant of deserialize_encoding: every BLOB is accepted.
DeserializeAcceptAll(blob) == << blob.payload >>

\* _deserialize_encoding (recognition_core.py:127-134): float64 first, then
\* float32 promoted to float64; None when neither gives 128 values.
\* Result: <<vector>> or <<>> for None.
deserialize_encoding(blob) ==
    IF ~FromBufferRaises(blob, 8) /\ FromBufferSize(blob, 8) = ENCODING_SIZE THEN << blob.payload >>
    ELSE IF ~FromBufferRaises(blob, 4) /\ FromBufferSize(blob, 4) = ENCODING_SIZE THEN << blob.payload >>
    ELSE << >>

\* The row loop of load_encodings_from_db (recognition_core.py:157-165).
RECURSIVE DecodeRows(_, _, _)
DecodeRows(rows, encs, names) ==
    IF Len(rows) = 0 THEN [encodings |-> encs, names |-> names]
    ELSE LET row          == Head(rows)
             display_name == DisplayName(row.first_name, row.last_name)
             encoding     == deserialize_encoding(row.encoding)
         IN  IF Len(encoding) = 0
             THEN DecodeRows(Tail(rows), encs, names)
             ELSE DecodeRows(Tail(rows), Append(encs, encoding[1]),
                             Append(names, <<row.banner_id, display_name>>))

\* load_encodings_cache (recognition_core.py:110-124): (None, None) is
\* [found |-> FALSE]; a missing file and an unreadable one give the same.
load_encodings_cache(file) ==
    IF file.kind = "npz"
    THEN [found |-> TRUE,
          encodings |-> [i \in 1..Len(file.encodings) |-> file.encodings[i]],
          names |-> [i \in 1..Len(file.names) |-> file.names[i]]]
    ELSE [found |-> FALSE, encodings |-> <<>>, names |-> <<>>]

\* Mutant of save_encodings_cache: a save adds to the archive already there.
save_encodings_cache_append(dir, file, encodings, names) ==
    IF dir = "blocked" THEN [raised |-> TRUE, saved |-> FALSE, file |-> file]
    ELSE IF dir = "readonly" THEN [raised |-> FALSE, saved |-> FALSE, file |-> file]
    ELSE [raised |-> FALSE, saved |-> TRUE,
          file |-> IF file.kind = "npz"
                   THEN NpzFile(file.encodings \o encodings, file.names \o names)
                   ELSE NpzFile(encodings, names)]

\* save_encodings_cache (recognition_core.py:91-107).  cache_dir.mkdir is
\* outside the try: when the directory cannot be created ("blocked") the
\* error propagates.  A failing np.savez_compressed ("readonly") is caught.
save_encodings_cache(dir, file, encodings, names) ==
    IF dir = "blocked" THEN [raised |-> TRUE, saved |-> FALSE, file |-> file]
    ELSE IF dir = "readonly" THEN [raised |-> FALSE, saved |-> FALSE, file |-> file]
    ELSE [raised |-> FALSE, saved |-> TRUE, file |-> NpzFile(encodings, names)]

\* The outcome of a load: whether it raised, what it returned, the cache
\* file it leaves, and whether it queried the remote store successfully.
LoadOutcome(raised, encodings, names, file, remote) ==
    [raised |-> raised, encodings |-> encodings, names |-> names, file |-> file, remote |-> remote]

\* Mutant of ShouldSaveCache: the cache is never written.
ShouldSaveCacheNever(encs) == FALSE

\* recognition_core.py:168, "if known_encodings:".
ShouldSaveCache(encs) == Len(encs) > 0

\* Mutant of CacheFallback: the cache is ignored after a remote failure.
CacheFallbackIgnored(file) == [found |-> FALSE, encodings |-> <<>>, names |-> <<>>]

\* The cache read of the fallback branches (recognition_core.py:141, 173).
CacheFallback(file) == load_encodings_cache(file)

\* load_encodings_from_db (recognition_core.py:137-181).
load_encodings_from_db(db, dir, file) ==
    IF ~db.configured
    THEN LET cached == CacheFallback(file)
         IN  IF cached.found
             THEN LoadOutcome(FALSE, cached.encodings, cached.names, file, FALSE)
             ELSE LoadOutcome(FALSE, <<>>, <<>>, file, FALSE)
    ELSE IF db.mode # "up"
    THEN \* pymysql.MySQLError from get_db_connection or cur.execute
         LET cached == CacheFallback(file)
         IN  IF cached.found
             THEN LoadOutcome(FALSE, cached.encodings, cached.names, file, FALSE)
             ELSE LoadOutcome(FALSE, <<>>, <<>>, file, FALSE)
    ELSE LET known == DecodeRows(db.rows, <<>>, <<>>)
         IN  IF ShouldSaveCache(known.encodings)
             THEN LET saved == save_encodings_cache(dir, file, known.encodings, known.names)
                  IN  IF saved.raised
                      THEN LoadOutcome(TRUE, <<>>, <<>>, saved.file, TRUE)
                      ELSE LoadOutcome(FALSE, known.encodings, known.names, saved.file, TRUE)
             ELSE LoadOutcome(FALSE, known.encodings, known.names, file, TRUE)

\* load_encodings (recognition_core.py:184-190).
load_encodings(cache_first, db, dir, file) ==
    LET cached == load_encodings_cache(file)
    IN  IF cache_first /\ cached.found
        THEN LoadOutcome(FALSE, cached.encodings, cached.names, file, FALSE)
        ELSE load_encodings_from_db(db, dir, file)


\* The deserialisation of ai_facial_recognition.py:119-149: "ok" (kept),
\* "skip" (warned and skipped) or "raise": when no attempt assigns
\* encoding and the last attempt does not raise (an empty BLOB), the code
\* reads encoding.size of None.
legacy_decode_status(blob) ==
    IF ~FromBufferRaises(blob, 8) /\ FromBufferSize(blob, 8) = ENCODING_SIZE THEN "ok"
    ELSE IF ~FromBufferRaises(blob, 4) /\ FromBufferSize(blob, 4) = ENCODING_SIZE THEN "ok"
    ELSE IF FromBufferRaises(blob, 8) THEN "skip"
    ELSE IF FromBufferSize(blob, 8) > 0 THEN "skip"
    ELSE "raise"

\* The row loop of ai_facial_recognition.py:115-153.
RECURSIVE LegacyDecodeRows(_, _, _)
LegacyDecodeRows(rows, encs, names) ==
    IF Len(rows) = 0 THEN [raised |-> FALSE, encodings |-> encs, names |-> names]
    ELSE LET row    == Head(rows)
             status == legacy_decode_status(row.encoding)
         IN  IF status = "raise" THEN [raised |-> TRUE, encodings |-> <<>>, names |-> <<>>]
             ELSE IF status = "skip" THEN LegacyDecodeRows(Tail(rows), encs, names)
             ELSE LegacyDecodeRows(Tail(rows), Append(encs, row.encoding.payload),
                                   Append(names, <<row.banner_id,
                                                   DisplayName(row.first_name, row.last_name)>>))

\* load_encodings_from_db of ai_facial_recognition.py:98-170.
legacy_load_encodings_from_db(db, dir, file) ==
    IF ~db.configured \/ db.mode # "up"
    THEN LET cached == load_encodings_cache(file)
         IN  IF cached.found
             THEN LoadOutcome(FALSE, cached.encodings, cached.names, file, FALSE)
             ELSE LoadOutcome(FALSE, <<>>, <<>>, file, FALSE)
    ELSE LET known == LegacyDecodeRows(db.rows, <<>>, <<>>)
         IN  IF known.raised THEN LoadOutcome(TRUE, <<>>, <<>>, file, TRUE)
             ELSE IF Len(known.encodings) > 0
             THEN LET saved == save_encodings_cache(dir, file, known.encodings, known.names)
                  IN  IF saved.raised
                      THEN LoadOutcome(TRUE, <<>>, <<>>, saved.file, TRUE)
                      ELSE LoadOutcome(FALSE, known.encodings, known.names, saved.file, TRUE)
             ELSE LoadOutcome(FALSE, known.encodings, known.names, file, TRUE)

\* What lastLoad records of a call: the operation, the remote store it
\* found, whether it raised and whether the remote query succeeded.
LoadRecord(op, db, out) ==
    [op |-> op, db |-> db, raised |-> out.raised, remote |-> out.remote]

NoLoad ==
    [op |-> "none", db |-> [configured |-> FALSE, mode |-> "up", rows |-> <<>>],
     raised |-> FALSE, remote |-> FALSE]

NoMatch ==
    [done |-> FALSE, encoding |-> <<0, 0>>, result |-> MatchTuple("Unknown", FALSE, 0, None)]

engineVars == << known_encodings, known_names, match_threshold >>

trackVars == << clock, face_tracking, last_recognition_time, pc, lastUpdate,
               lastEvents, prevEventTime, feed >>

httpVars == << FLASK_APP_URL, call >>

dispatchVars == << units, loopFrames, lastStep >>

analyzeVars == << frame_skip, frame_counter, last_refresh, lastAnalyze >>

captureVars == << camera_backend, failure_count, loop_pc, lastCapture >>

engineLoopVars == << analyzeVars, captureVars >>

moveVars == << enable_movement_control, robot_interface, is_moving, movement_enabled,
               last_stop_time, lastSigns >>

navVars == << nav_threads, engine_loads >>

vars == << known_encodings, known_names, match_threshold, lastMatch,
           cacheDir, cacheFile, lastLoad, program,
           clock, face_tracking, last_recognition_time, pc, lastUpdate,
           lastEvents, prevEventTime, feed, FLASK_APP_URL, call,
           units, loopFrames, lastStep,
           frame_skip, frame_counter, last_refresh, lastAnalyze,
           camera_backend, failure_count, loop_pc, lastCapture, lastCache,
           enable_movement_control, robot_interface, is_moving, movement_enabled,
           last_stop_time, lastSigns, nav_threads, engine_loads >>

\* FLASK_APP_URL = os.environ.get("FLASK_APP_URL", "http://localhost:5001")
\* with the variable unset.
DefaultFlaskUrl == "http://localhost:5001"

\* No HTTP helper has been called yet.
NoCall ==
    [fn |-> "none", urls_to_try |-> <<>>, tried |-> <<>>, primary0 |-> None,
     first200 |-> 0, allFailed |-> TRUE, prev200 |-> None, ret |-> "none"]

\* No worker has taken a step yet.
NoStep == [unit |-> 0, fn |-> "none", response |-> "none", failed |-> FALSE]

\* No event has been dispatched.
DispatchIdle ==
    /\ units = << >>
    /\ loopFrames = 0
    /\ lastStep = NoStep

\* The HTTP helpers at import time with the default configuration.
HttpIdle ==
    /\ FLASK_APP_URL = DefaultFlaskUrl
    /\ call = NoCall
    /\ DispatchIdle

\* frame=None: no image; otherwise the faces the detector reports on the
\* image, in detection order, each with its location (top, right, bottom,
\* left) in the resized image and its encoding.
NoFrame == [is_none |-> TRUE, faces |-> << >>]

\* analyze_frame has not been called yet.
NoAnalyze ==
    [k |-> 0, unforced |-> TRUE, frame |-> NoFrame, skip_frame_check |-> FALSE,
     empty_known |-> TRUE, detected |-> FALSE, results |-> << >>,
     elapsed |-> 0, refreshed |-> FALSE]

\* Neither cache function has been called on its own.
NoCacheOp ==
    [op |-> "none", saves |-> 0, encodings |-> << >>, names |-> << >>,
     returned |-> "none", loaded |-> [found |-> FALSE, encodings |-> << >>, names |-> << >>]]

\* handle_traffic_signs has not been called yet.
NoSigns == [done |-> FALSE, detections |-> << >>, was_moving |-> FALSE]

\* MovementControlledRecognitionSystem() with its defaults (lines 46-69)
\* and no robot interface.
MoveIdle ==
    /\ enable_movement_control = FALSE
    /\ robot_interface = None
    /\ is_moving = FALSE
    /\ movement_enabled = FALSE
    /\ last_stop_time = 0
    /\ lastSigns = NoSigns

\* No navigation thread has been started.
NavIdle ==
    /\ nav_threads = << >>
    /\ engine_loads = {}

\* No capture has been attempted yet.
NoCapture == [n |-> 0, ok |-> TRUE, reinit |-> "none", before |-> 0]

\* The engine as the integrated system constructs it (frame_skip=1) and the
\* loop's locals before the first iteration.
EngineLoopIdle ==
    /\ frame_skip = 1
    /\ frame_counter = 0
    /\ last_refresh = 0
    /\ lastAnalyze = NoAnalyze
    /\ camera_backend = None
    /\ failure_count = 0
    /\ loop_pc = "running"
    /\ lastCapture = NoCapture

NoUpdate == [time |-> 0, results |-> <<>>, assigned |-> <<>>, removed |-> {}]

\* The tracker and the loop before the first frame, as __init__ leaves them
\* (integrated_recognition_system.py:149-163).
TrackerIdle ==
    /\ clock = 0
    /\ face_tracking = <<>>
    /\ last_recognition_time = 0
    /\ pc = "track"
    /\ lastUpdate = NoUpdate
    /\ lastEvents = <<>>
    /\ prevEventTime = <<>>
    /\ feed = [state |-> "none"]

(***************************************************************************)
(* Identity store: the operations.                                         *)
(***************************************************************************)

\* The assignment of a load's result: at construction
\* (recognition_core.py:296), in FaceRecognitionEngine.refresh_known_faces
\* (recognition_core.py:321-322) and in refresh_known_faces of
\* ai_facial_recognition.py:183-186.  Nothing is assigned when the load
\* raises.
AssignLoad(op, out, db) ==
    /\ lastLoad' = LoadRecord(op, db, out)
    /\ cacheFile' = out.file
    /\ IF out.raised
       THEN UNCHANGED << known_encodings, known_names >>
       ELSE /\ known_encodings' = out.encodings
            /\ known_names' = out.names
    /\ UNCHANGED << cacheDir, program, match_threshold, lastMatch, trackVars, httpVars, dispatchVars, engineLoopVars, lastCache, moveVars, navVars >>

\* FaceRecognitionEngine.__init__ with cache_first (recognition_core.py:296).
EngineConstruct ==
    /\ program = "core"
    /\ \E cache_first \in BOOLEAN, db \in DbStates :
          AssignLoad(IF cache_first THEN "load_cache_first" ELSE "load",
                     load_encodings(cache_first, db, cacheDir, cacheFile), db)

\* FaceRecognitionEngine.refresh_known_faces(force_online).
RefreshKnownFaces ==
    /\ program = "core"
    /\ \E force_online \in BOOLEAN, db \in DbStates :
          AssignLoad("refresh",
                     IF force_online
                     THEN load_encodings_from_db(db, cacheDir, cacheFile)
                     ELSE load_encodings(FALSE, db, cacheDir, cacheFile), db)

\* refresh_known_faces of ai_facial_recognition.py:172-186, as called at
\* import, from main and from run_camera_loop (line 383, inside a try that
\* handles KeyboardInterrupt only).
LegacyRefreshKnownFaces ==
    /\ program = "legacy"
    /\ \E db \in DbStates :
          AssignLoad("legacy_refresh",
                     legacy_load_encodings_from_db(db, cacheDir, cacheFile), db)

\* The file system outside the program: the cache directory becomes
\* writable, read-only or impossible to create (then it holds no file); the
\* cache file is removed or damaged.
CacheEnvChange ==
    /\ \E d \in { "ok", "readonly", "blocked" }, damage \in { "keep", "remove", "corrupt" } :
          /\ cacheDir' = d
          /\ cacheFile' = IF d = "blocked" \/ damage = "remove" THEN AbsentFile
                          ELSE IF damage = "corrupt" THEN CorruptFile
                          ELSE cacheFile
          /\ << cacheDir', cacheFile' >> # << cacheDir, cacheFile >>
    /\ lastLoad' = NoLoad
    /\ UNCHANGED << program, engineVars, lastMatch, trackVars, httpVars, dispatchVars, engineLoopVars, lastCache, moveVars, navVars >>

InitStore ==
    /\ program \in { "core", "legacy" }
    /\ known_encodings = <<>>
    /\ known_names = <<>>
    /\ match_threshold = MATCH_THRESHOLD
    /\ lastMatch = NoMatch
    /\ cacheDir \in { "ok", "readonly", "blocked" }
    /\ cacheFile = AbsentFile
    /\ lastLoad = NoLoad
    /\ TrackerIdle
    /\ HttpIdle
    /\ EngineLoopIdle
    /\ lastCache = NoCacheOp
    /\ MoveIdle
    /\ NavIdle

NextStore ==
    \/ EngineConstruct
    \/ RefreshKnownFaces
    \/ LegacyRefreshKnownFaces
    \/ CacheEnvChange

SpecStore == InitStore /\ [][NextStore]_vars


(***************************************************************************)
(* Matcher: match_face_encoding applied to bounded inputs.                 *)
(***************************************************************************)

\* Known sets as a load leaves them: two parallel lists of equal length.
KnownIdentities == { [names |-> p, encoding |-> e] : p \in People, e \in Embeddings }

KnownSets == SeqsUpTo(KnownIdentities, MaxKnown)

\* FaceRecognitionEngine.match_face_encoding on the engine's state.
MatchFaceEncoding ==
    /\ program = "core"
    /\ \E encoding \in Embeddings :
          lastMatch' = [done |-> TRUE, encoding |-> encoding,
                        result |-> match_face_encoding(known_encodings, known_names,
                                                       match_threshold, encoding)]
    /\ UNCHANGED << engineVars, cacheDir, cacheFile, lastLoad, program, trackVars, httpVars, dispatchVars, engineLoopVars, lastCache, moveVars, navVars >>

\* match_face_encoding of ai_facial_recognition.py on the module globals.
LegacyMatchFaceEncoding ==
    /\ program = "legacy"
    /\ \E encoding \in Embeddings :
          lastMatch' = [done |-> TRUE, encoding |-> encoding,
                        result |-> legacy_match_face_encoding(known_encodings, known_names,
                                                              match_threshold, encoding)]
    /\ UNCHANGED << engineVars, cacheDir, cacheFile, lastLoad, program, trackVars, httpVars, dispatchVars, engineLoopVars, lastCache, moveVars, navVars >>

InitMatch ==
    /\ program \in { "core", "legacy" }
    /\ \E k \in KnownSets :
          /\ known_encodings = [i \in 1..Len(k) |-> k[i].encoding]
          /\ known_names = [i \in 1..Len(k) |-> k[i].names]
    /\ match_threshold \in Thresholds
    /\ lastMatch = NoMatch
    /\ cacheDir = "ok"
    /\ cacheFile = AbsentFile
    /\ lastLoad = NoLoad
    /\ TrackerIdle
    /\ HttpIdle
    /\ EngineLoopIdle
    /\ lastCache = NoCacheOp
    /\ MoveIdle
    /\ NavIdle

NextMatch ==
    \/ MatchFaceEncoding
    \/ LegacyMatchFaceEncoding

SpecMatch == InitMatch /\ [][NextMatch]_vars

(***************************************************************************)
(* Claims about the matcher.                                               *)
(***************************************************************************)

\* The minimum distance of the last query to the known set (non-empty).
LastMinDistance == NpMin(face_distance(known_encodings, lastMatch.encoding))

\* C1: for every query, non-empty known set and threshold t, the result is
\* matched exactly when the minimum distance is strictly less than t (a
\* distance equal to t is not a match); a matched result carries the
\* identity's id and name, an unmatched one "Unknown" and no id.
C1_StrictThreshold ==
    (lastMatch.done /\ Len(known_encodings) > 0) =>
        LET r    == lastMatch.result
            best == known_names[NpArgMin(face_distance(known_encodings, lastMatch.encoding))]
        IN  /\ r.matched <=> (LastMinDistance < match_threshold)
            /\ r.matched => r.name = (IF best[2] # "" THEN best[2] ELSE best[1])
            /\ (r.matched /\ program = "core") => r.banner_id = best[1]
            /\ ~r.matched => r.name = "Unknown"
            /\ (~r.matched /\ program = "core") => r.banner_id = None

\* A query answered by the core engine.
CoreMatch == program = "core" /\ lastMatch.done

\* C17: for every query and threshold, matching against an empty known set
\* returns name "Unknown", matched false, confidence 0.0 and no identity id.
C17_EmptyKnownSet ==
    CoreMatch /\ Len(known_encodings) = 0 =>
        lastMatch.result =
            [name |-> "Unknown", matched |-> FALSE, confidence |-> 0, banner_id |-> None]

\* C17 witness: a query answered with an empty known set.
C17_Witness ==
    /\ CoreMatch
    /\ known_encodings = << >>
    /\ lastMatch.encoding = <<3, 4>>
    /\ ~lastMatch.result.matched

\* C18: the confidence of every result, matched or not, is 1 - minDistance
\* when that is non-negative and 0 otherwise, so it lies in [0, 1].
C18_ConfidenceRange ==
    CoreMatch =>
        /\ lastMatch.result.confidence \in 0..Scale
        /\ Len(known_encodings) > 0 =>
              lastMatch.result.confidence =
                  (IF Scale - LastMinDistance >= 0 THEN Scale - LastMinDistance ELSE 0)

\* C18 witness: a query farther than 1.0 from every known identity, whose
\* confidence is clamped to 0.
C18_Witness ==
    /\ CoreMatch
    /\ Len(known_encodings) > 0
    /\ LastMinDistance > Scale
    /\ lastMatch.result.confidence = 0
    /\ ~lastMatch.result.matched

\* The result for the last query and the current known set under threshold t.
MatchUnder(t) ==
    match_face_encoding(known_encodings, known_names, t, lastMatch.encoding)

\* The same identity in two results.
SameIdentity(r1, r2) == r1.banner_id = r2.banner_id /\ r1.name = r2.name

\* C19: for the same query and known set and thresholds t2 < t1, a match
\* under t2 is a match under t1 with the same identity; lowering the
\* threshold never turns an unmatched result into a matched one.
C19_ThresholdMonotone ==
    CoreMatch =>
        \A t \in Thresholds :
            /\ t < match_threshold /\ MatchUnder(t).matched =>
                  /\ lastMatch.result.matched
                  /\ SameIdentity(lastMatch.result, MatchUnder(t))
            /\ t > match_threshold /\ lastMatch.result.matched =>
                  /\ MatchUnder(t).matched
                  /\ SameIdentity(MatchUnder(t), lastMatch.result)

\* C19 witness: a query at a positive distance from the known set, matched
\* under the engine's threshold and under a lower one.
C19_Witness ==
    /\ CoreMatch
    /\ lastMatch.result.matched
    /\ \E t \in Thresholds : t < match_threshold /\ MatchUnder(t).matched
    /\ LastMinDistance > 0

\* The known identities nearest to the last query, by position.
Nearest ==
    { i \in 1..Len(known_encodings) :
        \A j \in 1..Len(known_encodings) :
            EuclideanDistance(known_encodings[i], lastMatch.encoding)
              <= EuclideanDistance(known_encodings[j], lastMatch.encoding) }

\* C27: for every query with several known identities at the same minimal
\* distance, that distance below the threshold, the result is a match of the
\* first of them in known-set order: its name is that identity's display
\* name, or its id when the display name is empty, and (core engine) its
\* banner id is that identity's id.
C27_FirstOfTies ==
    /\ lastMatch.done
    /\ Cardinality(Nearest) > 1
    /\ \A i \in Nearest :
          EuclideanDistance(known_encodings[i], lastMatch.encoding) < match_threshold
    => \E i \in Nearest :
          /\ \A j \in Nearest : i <= j
          /\ lastMatch.result.matched
          /\ lastMatch.result.name =
                (IF known_names[i][2] # "" THEN known_names[i][2] ELSE known_names[i][1])
          /\ program = "core" => lastMatch.result.banner_id = known_names[i][1]

\* C27 witness: the core engine answered a query that is equally near, and
\* within the threshold, to a first identity without display name and a
\* second one with a display name; the result carries the first one's id as
\* its name.
C27_Witness ==
    /\ CoreMatch
    /\ Cardinality(Nearest) = 2
    /\ known_names = << << "B002", "" >>, << "B001", "Ada Lovelace" >> >>
    /\ EuclideanDistance(known_encodings[1], lastMatch.encoding) < match_threshold
    /\ lastMatch.result.matched
    /\ lastMatch.result.name = "B002"
    /\ lastMatch.result.banner_id = "B002"

(***************************************************************************)
(* Claims about the identity store.                                        *)
(***************************************************************************)

\* The identities a successful remote query yields, per program.
RemoteIdentities(db) ==
    IF program = "core" THEN DecodeRows(db.rows, <<>>, <<>>)
    ELSE LegacyDecodeRows(db.rows, <<>>, <<>>)

\* A load of the core engine that went through load_encodings_from_db.
CoreDbLoad == program = "core" /\ lastLoad.op \in { "load", "refresh" }

\* C2: load_encodings_from_db returns the remote identities when the remote
\* query succeeds; otherwise it returns exactly the contents of the local
\* cache, in cache order, if a parseable cache file exists; otherwise the
\* empty known set.
C2_FallbackChain ==
    CoreDbLoad =>
        /\ ~lastLoad.raised
        /\ IF lastLoad.remote
           THEN /\ known_encodings = RemoteIdentities(lastLoad.db).encodings
                /\ known_names = RemoteIdentities(lastLoad.db).names
           ELSE IF cacheFile.kind = "npz"
           THEN /\ known_encodings = cacheFile.encodings
                /\ known_names = cacheFile.names
           ELSE /\ known_encodings = <<>>
                /\ known_names = <<>>

\* C3: whatever the remote store and the cache are, a load or refresh
\* returns a known set and raises nothing into its caller.
C3_LoadNeverRaises == lastLoad.op # "none" => ~lastLoad.raised

Holds128(row) ==
    \/ row.encoding.nbytes = ENCODING_SIZE * 8
    \/ row.encoding.nbytes = ENCODING_SIZE * 4

\* C16: the known set of a successful remote load is exactly the rows, in
\* row order, whose BLOB holds 128 values as 64-bit or as 32-bit floats;
\* the other rows are skipped and the load goes on.
C16_DecodeFiltering ==
    CoreDbLoad /\ lastLoad.remote /\ ~lastLoad.raised =>
        LET kept == SelectSeq(lastLoad.db.rows, Holds128)
        IN  /\ Len(known_encodings) = Len(kept)
            /\ Len(known_names) = Len(kept)
            /\ \A i \in 1..Len(kept) :
                  /\ known_encodings[i] = kept[i].encoding.payload
                  /\ known_names[i][1] = kept[i].banner_id

\* C16 witness: a remote load of a malformed row followed by a well-formed
\* one keeps the second only.
C16_Witness ==
    /\ CoreDbLoad /\ lastLoad.remote /\ ~lastLoad.raised
    /\ Len(lastLoad.db.rows) = 2
    /\ ~Holds128(lastLoad.db.rows[1])
    /\ Holds128(lastLoad.db.rows[2])
    /\ Len(known_names) = 1
    /\ known_names[1][1] = lastLoad.db.rows[2].banner_id

(***************************************************************************)
(* Tracker and event loop (integrated_recognition_system.py).              *)
(***************************************************************************)
FACE_PERSISTENCE_TIME == 3      \* seconds
FACE_POSITION_TOLERANCE == 50   \* pixels
recognition_cooldown == 2       \* seconds
legacy_recognition_cooldown == 3 \* seconds, run_camera_loop

MaxTime == 8        \* the clock stops advancing here
MaxGap == 4         \* longest time between two loop iterations
MaxFaces == 2       \* most faces in one frame

\* Boxes (top, right, bottom, left) with centres (100,100) and (150,100),
\* exactly the tolerance apart.
BoxLeft == <<80, 120, 120, 80>>

BoxRight == <<80, 170, 120, 130>>

\* One result of analyze_faces (integrated_recognition_system.py:419-428).
FaceResult(box, name, matched, confidence, banner_id) ==
    [box |-> box, name |-> name, matched |-> matched, confidence |-> confidence,
     banner_id |-> banner_id]

\* Results analyze_faces hands over: a box with a matched identity or an
\* explicit Unknown.  B002 has no display name, so its name is its id.
AdaLeft == FaceResult(BoxLeft, "Ada Lovelace", TRUE, 18, "B001")

UnknownLeft == FaceResult(BoxLeft, "Unknown", FALSE, 2, None)

B002Right == FaceResult(BoxRight, "B002", TRUE, 15, "B002")

\* The faces the camera sees: two enrolled people 50 pixels apart, the
\* first of them sometimes unrecognised.
FaceResults == { AdaLeft, UnknownLeft, B002Right }

\* face_center = ((left + right) // 2, (top + bottom) // 2)
FaceCenter(box) == << (box[4] + box[2]) \div 2, (box[1] + box[3]) \div 2 >>

\* Mutant of WithinTolerance: no track is ever near enough.
WithinToleranceNever(face_center, tracked_center) == FALSE

\* distance < self.FACE_POSITION_TOLERANCE, distance the Euclidean distance
\* of the two centres; for integer centres and tolerance the comparison of
\* the squares is the same.
WithinTolerance(face_center, tracked_center) ==
    (face_center[1] - tracked_center[1]) * (face_center[1] - tracked_center[1])
      + (face_center[2] - tracked_center[2]) * (face_center[2] - tracked_center[2])
    < FACE_POSITION_TOLERANCE * FACE_POSITION_TOLERANCE

\* Mutant of FindTrack: the nearest tracked face within tolerance instead of
\* the first.
FindTrackNearest(tracking, face_center) ==
    LET d(i) == (face_center[1] - tracking[i].center[1]) * (face_center[1] - tracking[i].center[1])
                + (face_center[2] - tracking[i].center[2]) * (face_center[2] - tracking[i].center[2])
        hits == { i \in 1..Len(tracking) : WithinTolerance(face_center, tracking[i].center) }
    IN  IF hits = {} THEN 0
        ELSE CHOOSE i \in hits : \A j \in hits : d(i) < d(j) \/ (d(i) = d(j) /\ i <= j)

\* The search loop of update_face_tracking (lines 457-464): the index of the
\* first tracked face within tolerance, 0 when there is none.
FindTrack(tracking, face_center) ==
    LET hits == { i \in 1..Len(tracking) : WithinTolerance(face_center, tracking[i].center) }
    IN  IF hits = {} THEN 0 ELSE CHOOSE i \in hits : \A j \in hits : i <= j

\* f"face_{current_time}_{face_center[0]}_{face_center[1]}"
MintTrackId(current_time, face_center) == << "face", current_time, face_center[1], face_center[2] >>

\* dict.get(track_id): the index of the entry with that key, 0 when absent.
IndexOf(tracking, track_id) ==
    LET hits == { i \in 1..Len(tracking) : tracking[i].track_id = track_id }
    IN  IF hits = {} THEN 0 ELSE CHOOSE i \in hits : TRUE

\* dict[key] = value: replaces in place, or appends a new key.
DictPut(tracking, entry) ==
    LET i == IndexOf(tracking, entry.track_id)
    IN  IF i = 0 THEN Append(tracking, entry) ELSE [tracking EXCEPT ![i] = entry]

\* Mutant of TransitionIntoMatched: every matched upsert counts as new.
TransitionIntoMatchedAlways(result, tracking, track_id) == result.matched

\* Line 485: result['matched'] and not
\* self.face_tracking.get(track_id, {}).get('matched', False).
TransitionIntoMatched(result, tracking, track_id) ==
    LET i == IndexOf(tracking, track_id)
    IN  result.matched /\ ~(i # 0 /\ tracking[i].matched)

\* The track id a result gets (lines 455-470).
AssignTrackId(tracking, result, current_time) ==
    LET face_center == FaceCenter(result.box)
        found       == FindTrack(tracking, face_center)
    IN  IF found # 0 THEN tracking[found].track_id
        ELSE MintTrackId(current_time, face_center)

\* The entry written to current_faces for one result (lines 472-486).
TrackEntry(tracking, result, current_time) ==
    LET track_id == AssignTrackId(tracking, result, current_time)
        i        == IndexOf(tracking, track_id)
        kept     == IF i # 0 THEN tracking[i].first_recognized
                    ELSE IF result.matched THEN << current_time >> ELSE << >>
    IN  [track_id |-> track_id,
         box |-> result.box,
         center |-> FaceCenter(result.box),
         name |-> result.name,
         matched |-> result.matched,
         confidence |-> result.confidence,
         banner_id |-> result.banner_id,
         last_seen |-> current_time,
         first_recognized |-> IF TransitionIntoMatched(result, tracking, track_id)
                              THEN << current_time >> ELSE kept]

\* The loop over face_results (lines 451-486), building current_faces.
RECURSIVE CurrentFaces(_, _, _, _)
CurrentFaces(tracking, results, current_time, current_faces) ==
    IF Len(results) = 0 THEN current_faces
    ELSE CurrentFaces(tracking, Tail(results), current_time,
                      DictPut(current_faces, TrackEntry(tracking, Head(results), current_time)))

\* Mutant of StillFresh: tracks never expire.
StillFreshAlways(data, current_time) == TRUE

\* Line 490: current_time - data['last_seen'] < self.FACE_PERSISTENCE_TIME.
StillFresh(data, current_time) == current_time - data.last_seen < FACE_PERSISTENCE_TIME

\* The dict comprehension of lines 489-490.
RECURSIVE RemoveOld(_, _)
RemoveOld(tracking, current_time) ==
    IF Len(tracking) = 0 THEN << >>
    ELSE IF StillFresh(Head(tracking), current_time)
    THEN << Head(tracking) >> \o RemoveOld(Tail(tracking), current_time)
    ELSE RemoveOld(Tail(tracking), current_time)

\* dict.update(current_faces), line 493.
\* Keys already present keep their position and take the new value; new
\* keys are appended in the order of current_faces.
DictUpdate(tracking, current_faces) ==
    [i \in 1..Len(tracking) |->
        LET j == IndexOf(current_faces, tracking[i].track_id)
        IN  IF j # 0 THEN current_faces[j] ELSE tracking[i]]
    \o SelectSeq(current_faces, LAMBDA entry : IndexOf(tracking, entry.track_id) = 0)

\* update_face_tracking (lines 444-493) as a function of the old track set.
\* current_faces and the tracks kept are each computed once, from the track
\* set as it was when the call began.
update_face_tracking(tracking, face_results, current_time) ==
    CHOOSE updated \in
        { DictUpdate(kept, current_faces) :
            kept \in { RemoveOld(tracking, current_time) },
            current_faces \in { CurrentFaces(tracking, face_results, current_time, << >>) } } :
        TRUE


\* tracked_face.get('banner_id') as a condition: neither None nor empty.
Truthy(banner_id) == banner_id # None /\ banner_id # ""

\* Mutant of CooldownElapsed: the cooldown is not checked.
CooldownElapsedAlways(current_time, last_time, cooldown) == TRUE

\* (current_time - self.last_recognition_time) > self.recognition_cooldown
CooldownElapsed(current_time, last_time, cooldown) == (current_time - last_time) > cooldown

\* The loop of process_face_recognition_events (lines 501-511): the first
\* track that is matched, has a banner id and finds the cooldown elapsed is
\* dispatched, and the loop breaks.
RECURSIVE EventsOf(_, _, _)
EventsOf(tracking, current_time, last_time) ==
    IF Len(tracking) = 0 THEN << >>
    ELSE LET tracked_face == Head(tracking)
         IN  IF /\ tracked_face.matched
                /\ Truthy(tracked_face.banner_id)
                /\ CooldownElapsed(current_time, last_time, recognition_cooldown)
             THEN << [time |-> current_time, face |-> tracked_face] >>
             ELSE EventsOf(Tail(tracking), current_time, last_time)

\* The result loop of run_camera_loop (ai_facial_recognition.py:405-421):
\* no break; last_recognition_time is assigned inside the loop.
RECURSIVE LegacyEventsOf(_, _, _)
LegacyEventsOf(results, current_time, last_time) ==
    IF Len(results) = 0 THEN << >>
    ELSE LET result == Head(results)
         IN  IF result.matched /\ CooldownElapsed(current_time, last_time, legacy_recognition_cooldown)
             THEN << [time |-> current_time, face |-> result] >>
                  \o LegacyEventsOf(Tail(results), current_time, current_time)
             ELSE LegacyEventsOf(Tail(results), current_time, last_time)

\* The frames: the lists of results of one analyze_faces call.
Frames == SeqsUpTo(FaceResults, MaxFaces)

\* What feed becomes when the tracker is given face_results.
FeedAfter(face_results, current_time) ==
    IF feed.state = "none"
    THEN IF Len(face_results) = 1 /\ face_results[1].matched /\ face_tracking = << >>
         THEN [state |-> "same", result |-> face_results[1],
               track_id |-> AssignTrackId(face_tracking, face_results[1], current_time),
               first |-> current_time]
         ELSE [state |-> "broken"]
    ELSE IF feed.state = "same" /\ face_results = << feed.result >> THEN feed
    ELSE [state |-> "broken"]

\* The bookkeeping of dispatched events shared by the two loops.
RecordEvents(events, current_time) ==
    /\ lastEvents' = events
    /\ IF Len(events) > 0
       THEN /\ last_recognition_time' = current_time
            /\ prevEventTime' = IF last_recognition_time # 0
                                THEN << last_recognition_time >> ELSE << >>
       ELSE UNCHANGED << last_recognition_time, prevEventTime >>

\* The tracks of the old set that the call leaves out of the new one.
RemovedBy(tracking, after) ==
    { [track_id |-> tracking[i].track_id, last_seen |-> tracking[i].last_seen] :
        i \in { j \in 1..Len(tracking) : IndexOf(after, tracking[j].track_id) = 0 } }

\* The effect of update_face_tracking(face_results) called dt seconds
\* after the previous step.
TrackAt(dt, face_results) ==
    LET current_time == clock + dt
    IN  /\ current_time <= MaxTime
        /\ clock' = current_time
        /\ face_tracking' = update_face_tracking(face_tracking, face_results, current_time)

\* The same, with the call entered in the history variables.
UpdateAt(dt, face_results) ==
    LET current_time == clock + dt
    IN  /\ TrackAt(dt, face_results)
        /\ lastUpdate' = [time |-> current_time,
                          results |-> face_results,
                          assigned |-> [i \in 1..Len(face_results) |->
                              AssignTrackId(face_tracking, face_results[i], current_time)],
                          removed |-> RemovedBy(face_tracking, face_tracking')]
        /\ feed' = FeedAfter(face_results, current_time)

\* run_integrated_system, line 774: self.update_face_tracking(face_results).
UpdateFaceTracking ==
    /\ program = "core"
    /\ pc = "track"
    /\ \E dt \in 0..MaxGap, face_results \in Frames : TrackAt(dt, face_results)
    /\ pc' = "events"
    /\ UNCHANGED << last_recognition_time, lastEvents, prevEventTime, lastUpdate, feed >>
    /\ UNCHANGED << engineVars, lastMatch, cacheDir, cacheFile, lastLoad, program, httpVars, dispatchVars, engineLoopVars, lastCache, moveVars, navVars >>

\* update_face_tracking called on its own, as test_integrated_system.py:82
\* does.
CallUpdateFaceTracking ==
    /\ program = "core"
    /\ \E dt \in 0..MaxGap, face_results \in Frames : UpdateAt(dt, face_results)
    /\ UNCHANGED << pc, last_recognition_time, lastEvents, prevEventTime >>
    /\ UNCHANGED << engineVars, lastMatch, cacheDir, cacheFile, lastLoad, program, httpVars, dispatchVars, engineLoopVars, lastCache, moveVars, navVars >>

\* run_integrated_system, line 775: self.process_face_recognition_events().
ProcessFaceRecognitionEvents ==
    /\ program = "core"
    /\ pc = "events"
    /\ \E dt \in 0..1 :
          LET current_time == clock + dt
          IN  /\ current_time <= MaxTime
              /\ clock' = current_time
              /\ RecordEvents(EventsOf(face_tracking, current_time, last_recognition_time),
                              current_time)
    /\ pc' = "track"
    /\ UNCHANGED << face_tracking, lastUpdate, feed >>
    /\ UNCHANGED << engineVars, lastMatch, cacheDir, cacheFile, lastLoad, program, httpVars, dispatchVars, engineLoopVars, lastCache, moveVars, navVars >>

\* One iteration of run_camera_loop (ai_facial_recognition.py:400-421).
LegacyLoopIteration ==
    /\ program = "legacy"
    /\ \E dt \in 0..MaxGap, results \in Frames :
          LET current_time == clock + dt
          IN  /\ current_time <= MaxTime
              /\ clock' = current_time
              /\ RecordEvents(LegacyEventsOf(results, current_time, last_recognition_time),
                              current_time)
    /\ UNCHANGED << face_tracking, lastUpdate, feed, pc >>
    /\ UNCHANGED << engineVars, lastMatch, cacheDir, cacheFile, lastLoad, program, httpVars, dispatchVars, engineLoopVars, lastCache, moveVars, navVars >>

\* The loop before its first frame; time.time() is far beyond any cooldown.
InitLoop ==
    /\ program \in { "core", "legacy" }
    /\ known_encodings = <<>>
    /\ known_names = <<>>
    /\ match_threshold = MATCH_THRESHOLD
    /\ lastMatch = NoMatch
    /\ cacheDir = "ok"
    /\ cacheFile = AbsentFile
    /\ lastLoad = NoLoad
    /\ clock = legacy_recognition_cooldown + 1
    /\ face_tracking = <<>>
    /\ last_recognition_time = 0
    /\ pc = "track"
    /\ lastUpdate = NoUpdate
    /\ lastEvents = <<>>
    /\ prevEventTime = <<>>
    /\ feed = [state |-> "none"]
    /\ HttpIdle
    /\ EngineLoopIdle
    /\ lastCache = NoCacheOp
    /\ MoveIdle
    /\ NavIdle

NextLoop ==
    \/ UpdateFaceTracking
    \/ ProcessFaceRecognitionEvents
    \/ LegacyLoopIteration

SpecLoop == InitLoop /\ [][NextLoop]_vars

InitTrack ==
    /\ InitLoop
    /\ program = "core"

NextTrack == CallUpdateFaceTracking

SpecTrack == InitTrack /\ [][NextTrack]_vars

\* The first person matched with a lower confidence.
AdaLeftDim == FaceResult(BoxLeft, "Ada Lovelace", TRUE, 14, "B001")

\* The frames of two enrolled people who both stay in view and matched, in
\* either detection order.
BothVisibleFrames ==
    { << AdaLeft, B002Right >>, << B002Right, AdaLeft >>,
      << AdaLeftDim, B002Right >>, << B002Right, AdaLeftDim >> }

\* run_integrated_system, line 774, while the two people stay in view: the
\* next frame comes before any track has expired.
UpdateBothVisible ==
    /\ program = "core"
    /\ pc = "track"
    /\ \E dt \in 1..(FACE_PERSISTENCE_TIME - 1), face_results \in BothVisibleFrames :
          /\ \A i \in 1..Len(face_tracking) : StillFresh(face_tracking[i], clock + dt)
          /\ TrackAt(dt, face_results)
    /\ pc' = "events"
    /\ UNCHANGED << last_recognition_time, lastEvents, prevEventTime, lastUpdate, feed >>
    /\ UNCHANGED << engineVars, lastMatch, cacheDir, cacheFile, lastLoad, program, httpVars, dispatchVars, engineLoopVars, lastCache, moveVars, navVars >>

\* A time of the loop counted from an origin d seconds later; a time before
\* the new origin becomes 0, "long ago".
ShiftTime(t, d) == Max(0, t - d)

ShiftOptional(o, d) == IF o = << >> THEN << >> ELSE << ShiftTime(o[1], d) >>

ShiftFace(tracked_face, d) ==
    [tracked_face EXCEPT !.last_seen = ShiftTime(@, d),
                         !.first_recognized = ShiftOptional(@, d)]

\* The loop reads time.time() only to subtract a stored time from it (lines
\* 490 and 504) and to store it; so that the loop can run on without end
\* within the bounds, the origin from which time is counted is moved
\* forward between two iterations.  The clock stays beyond the cooldown,
\* every stored time within reach of a comparison keeps its distance from
\* the clock, and track ids, which are opaque keys, stay as they are.
MoveTimeOrigin ==
    /\ program = "core"
    /\ pc = "track"
    /\ clock >= MaxTime - 1
    /\ LET d == FACE_PERSISTENCE_TIME
       IN  /\ clock' = clock - d
           /\ face_tracking' = [i \in 1..Len(face_tracking) |-> ShiftFace(face_tracking[i], d)]
           /\ last_recognition_time' = ShiftTime(last_recognition_time, d)
           /\ lastEvents' = [i \in 1..Len(lastEvents) |->
                                [time |-> ShiftTime(lastEvents[i].time, d),
                                 face |-> ShiftFace(lastEvents[i].face, d)]]
           /\ prevEventTime' = ShiftOptional(prevEventTime, d)
    /\ UNCHANGED << pc, lastUpdate, feed >>
    /\ UNCHANGED << engineVars, lastMatch, cacheDir, cacheFile, lastLoad, program, httpVars, dispatchVars, engineLoopVars, lastCache, moveVars, navVars >>

InitBothVisible == InitTrack

NextBothVisible ==
    \/ UpdateBothVisible
    \/ ProcessFaceRecognitionEvents
    \/ MoveTimeOrigin

\* The while loop of run_integrated_system keeps iterating (lines 740-775).
SpecBothVisible ==
    InitBothVisible /\ [][NextBothVisible]_vars /\ WF_vars(NextBothVisible)

\* A scene for the association of detections with tracks: besides the two
\* people 50 pixels apart, the first person 5 pixels further right (centre
\* (105,100)) and an unrecognised face between the two (centre (140,100),
\* 40 pixels from the first person and 10 from the second).
BoxNear == <<80, 125, 120, 85>>

BoxMid == <<80, 160, 120, 120>>

AdaNear == FaceResult(BoxNear, "Ada Lovelace", TRUE, 17, "B001")

UnknownMid == FaceResult(BoxMid, "Unknown", FALSE, 3, None)

\* The frames of the scene.
SceneFrames ==
    { << >>, << AdaLeft >>, << B002Right >>, << AdaLeft, B002Right >>,
      << AdaNear >>, << UnknownMid >>, << AdaNear, UnknownMid >>,
      << UnknownMid, AdaNear >>, << UnknownMid, B002Right >> }

\* update_face_tracking called on consecutive frames of the scene, each frame
\* later than the one before.
TrackSceneFrame ==
    /\ program = "core"
    /\ \E dt \in 1..MaxGap, face_results \in SceneFrames : UpdateAt(dt, face_results)
    /\ UNCHANGED << pc, last_recognition_time, lastEvents, prevEventTime >>
    /\ UNCHANGED << engineVars, lastMatch, cacheDir, cacheFile, lastLoad, program, httpVars, dispatchVars, engineLoopVars, lastCache, moveVars, navVars >>

InitScene == InitTrack

NextScene == TrackSceneFrame

SpecScene == InitScene /\ [][NextScene]_vars


(***************************************************************************)
(* HTTP helpers with endpoint failover (recognition_core.py:201-261).      *)
(***************************************************************************)
ALTERNATIVE_FLASK_URLS ==
    << "http://localhost:5001", "http://127.0.0.1:5001", "http://localhost:5000",
       "http://127.0.0.1:5000", "http://10.202.65.203:5001" >>

\* A base URL given in the environment that is not one of the alternates.
CustomFlaskUrl == "http://robot-hub.local:5001"

\* What one POST can come to: the request fails to connect or times out
\* (both requests.RequestException), or a response arrives with a status
\* other than 200, or with status 200 and a JSON object body (order
\* fulfilled or not), a body that is not JSON, or a JSON list.
Responses ==
    { "connection_error", "timeout", "status_500",
      "ok_fulfilled", "ok_pending", "ok_not_json", "ok_json_list" }

\* The failures of a candidate: connection error, timeout, non-200.
FailureResponses == { "connection_error", "timeout", "status_500" }

\* response.status_code; 0 when the POST raised and there is no response.
StatusCode(response) ==
    CASE response \in { "connection_error", "timeout" } -> 0
      [] response = "status_500" -> 500
      [] OTHER -> 200

\* Removes every occurrence of url: [u for u in urls if u != url].
RECURSIVE Without(_, _)
Without(urls, url) ==
    IF Len(urls) = 0 THEN << >>
    ELSE IF Head(urls) = url THEN Without(Tail(urls), url)
    ELSE << Head(urls) >> \o Without(Tail(urls), url)

\* Mutant of UrlsToTry: the primary is not filtered out of the alternates.
UrlsToTryUnfiltered(primary) == << primary >> \o ALTERNATIVE_FLASK_URLS

\* urls_to_try = [FLASK_APP_URL] + [url for url in ALTERNATIVE_FLASK_URLS
\*                                  if url != FLASK_APP_URL]
UrlsToTry(primary) == << primary >> \o Without(ALTERNATIVE_FLASK_URLS, primary)

\* The except clauses of the two loops: requests.RequestException and
\* Exception; nothing else is handled.
Caught(exception) == exception \in { "RequestException", "Exception" }

\* What the body of one loop iteration does with a response:
\* records - FLASK_APP_URL = url is executed;
\* returns - the function returns value from inside the loop;
\* exception - what the body raises ("none" when it raises nothing).
Effect(records, returns, value, exception) ==
    [records |-> records, returns |-> returns, value |-> value, exception |-> exception]

\* log_verification_http, lines 215-227.
LogVerificationEffect(response) ==
    IF StatusCode(response) = 0 THEN Effect(FALSE, FALSE, "False", "RequestException")
    ELSE IF StatusCode(response) = 200 THEN Effect(TRUE, TRUE, "True", "none")
    ELSE Effect(FALSE, FALSE, "False", "none")

\* process_order_fulfillment, lines 240-258: response.json() comes first
\* and raises on a body that is not JSON; then the URL is recorded; then
\* result.get raises on a JSON value that is not an object.
ProcessOrderEffect(response) ==
    IF StatusCode(response) = 0 THEN Effect(FALSE, FALSE, "False", "RequestException")
    ELSE IF StatusCode(response) # 200 THEN Effect(FALSE, FALSE, "False", "none")
    ELSE CASE response = "ok_not_json" -> Effect(FALSE, FALSE, "False", "Exception")
           [] response = "ok_json_list" -> Effect(TRUE, FALSE, "False", "Exception")
           [] response = "ok_fulfilled" -> Effect(TRUE, TRUE, "True", "none")
           [] OTHER -> Effect(TRUE, TRUE, "False", "none")

\* The head of either function: the candidate list is fixed for the call.
StartCall(fn) ==
    /\ call.ret # "running"
    /\ call' = [fn |-> fn,
                urls_to_try |-> UrlsToTry(FLASK_APP_URL),
                tried |-> << >>,
                primary0 |-> FLASK_APP_URL,
                first200 |-> 0,
                allFailed |-> TRUE,
                prev200 |-> IF call.first200 # 0 THEN call.tried[call.first200] ELSE None,
                ret |-> "running"]
    /\ UNCHANGED FLASK_APP_URL

\* One pass of the for loop over urls_to_try, and the return after the loop
\* when the pass was the last one.
AttemptWith(effect, response) ==
    LET attempt == Len(call.tried) + 1
        url     == call.urls_to_try[attempt]
        ret     == IF effect.exception # "none" /\ ~Caught(effect.exception) THEN "raised"
                   ELSE IF effect.returns THEN effect.value
                   ELSE IF attempt = Len(call.urls_to_try) THEN "False"
                   ELSE "running"
    IN  /\ FLASK_APP_URL' = IF effect.records THEN url ELSE FLASK_APP_URL
        /\ call' = [call EXCEPT
                      !.tried = Append(@, url),
                      !.first200 = IF @ = 0 /\ StatusCode(response) = 200 THEN attempt ELSE @,
                      !.allFailed = @ /\ response \in FailureResponses,
                      !.ret = ret]

StartLogVerification ==
    /\ StartCall("log_verification_http")
    /\ UNCHANGED << engineVars, lastMatch, cacheDir, cacheFile, lastLoad, program, trackVars, dispatchVars, engineLoopVars, lastCache, moveVars, navVars >>

StartProcessOrder ==
    /\ StartCall("process_order_fulfillment")
    /\ UNCHANGED << engineVars, lastMatch, cacheDir, cacheFile, lastLoad, program, trackVars, dispatchVars, engineLoopVars, lastCache, moveVars, navVars >>

LogVerificationAttempt ==
    /\ call.fn = "log_verification_http"
    /\ call.ret = "running"
    /\ \E response \in Responses : AttemptWith(LogVerificationEffect(response), response)
    /\ UNCHANGED << engineVars, lastMatch, cacheDir, cacheFile, lastLoad, program, trackVars, dispatchVars, engineLoopVars, lastCache, moveVars, navVars >>

ProcessOrderAttempt ==
    /\ call.fn = "process_order_fulfillment"
    /\ call.ret = "running"
    /\ \E response \in Responses : AttemptWith(ProcessOrderEffect(response), response)
    /\ UNCHANGED << engineVars, lastMatch, cacheDir, cacheFile, lastLoad, program, trackVars, dispatchVars, engineLoopVars, lastCache, moveVars, navVars >>

\* The module after import; the primary is the default or the environment's.
InitHttp ==
    /\ program = "core"
    /\ known_encodings = <<>>
    /\ known_names = <<>>
    /\ match_threshold = MATCH_THRESHOLD
    /\ lastMatch = NoMatch
    /\ cacheDir = "ok"
    /\ cacheFile = AbsentFile
    /\ lastLoad = NoLoad
    /\ TrackerIdle
    /\ FLASK_APP_URL \in { DefaultFlaskUrl, CustomFlaskUrl }
    /\ call = NoCall
    /\ DispatchIdle
    /\ EngineLoopIdle
    /\ lastCache = NoCacheOp
    /\ MoveIdle
    /\ NavIdle

NextHttp ==
    \/ StartLogVerification
    \/ StartProcessOrder
    \/ LogVerificationAttempt
    \/ ProcessOrderAttempt

SpecHttp == InitHttp /\ [][NextHttp]_vars


(***************************************************************************)
(* Event dispatch: one worker thread per recognition event                 *)
(* (integrated_recognition_system.py:513-531).                             *)
(***************************************************************************)
MaxUnits == 2        \* most events dispatched in one run
MaxLoopFrames == 1   \* most frames counted while a worker is running

\* The thread _dispatch_async_events starts: threading.Thread(target=_worker,
\* daemon=True).start() returns at once; _worker has made no call yet.
\* logged tells how the worker's log_verification_http call ended: "pending"
\* until it has, "success" when it returned from a 200 response, "failed"
\* when every candidate failed or an exception left the helper.
SpawnedUnit(banner_id) ==
    [banner_id |-> banner_id, pc |-> "spawned", urls_to_try |-> << >>, attempt |-> 0,
     logged |-> "pending"]

\* A worker that has not returned from _worker.
InFlight(unit) == unit.pc # "done"

\* process_face_recognition_events, lines 507-508: the event of a track with
\* a banner id is handed to _dispatch_async_events, which starts the worker
\* and returns to the loop.
DispatchAsyncEvents ==
    /\ Len(units) < MaxUnits
    /\ units' = Append(units, SpawnedUnit("B001"))
    /\ lastStep' = [unit |-> Len(units) + 1, fn |-> "_dispatch_async_events",
                    response |-> "none", failed |-> FALSE]
    /\ UNCHANGED << loopFrames, FLASK_APP_URL, call >>
    /\ UNCHANGED << engineVars, lastMatch, cacheDir, cacheFile, lastLoad, program, trackVars, engineLoopVars, lastCache, moveVars, navVars >>

\* An iteration of run_integrated_system that dispatches nothing, taken
\* while a worker is running.
LoopIterationInFlight ==
    /\ \E i \in 1..Len(units) : InFlight(units[i])
    /\ loopFrames < MaxLoopFrames
    /\ loopFrames' = loopFrames + 1
    /\ lastStep' = [unit |-> 0, fn |-> "run_integrated_system", response |-> "none",
                    failed |-> FALSE]
    /\ UNCHANGED << units, FLASK_APP_URL, call >>
    /\ UNCHANGED << engineVars, lastMatch, cacheDir, cacheFile, lastLoad, program, trackVars, engineLoopVars, lastCache, moveVars, navVars >>

\* The head of a helper called by worker i: its candidate list.
UnitStart(i, fn, next_pc) ==
    /\ units' = [units EXCEPT ![i] = [@ EXCEPT !.pc = next_pc,
                                                !.urls_to_try = UrlsToTry(FLASK_APP_URL),
                                                !.attempt = 0]]
    /\ lastStep' = [unit |-> i, fn |-> fn, response |-> "none", failed |-> FALSE]
    /\ UNCHANGED << loopFrames, FLASK_APP_URL, call >>

\* A pass that ends in a warning or an error: no response (connection
\* failure, timeout), a status other than 200, or an exception raised while
\* the response is handled.
AttemptFailed(effect, response) ==
    StatusCode(response) # 200 \/ effect.exception # "none"

\* One pass of the helper's for loop in worker i; after the last pass, or a
\* return, or an exception the helper lets out (which _worker catches), the
\* worker moves on to after_pc.
UnitAttempt(i, fn, effect, response, after_pc) ==
    LET unit    == units[i]
        attempt == unit.attempt + 1
        url     == unit.urls_to_try[attempt]
        over    == \/ effect.returns
                   \/ attempt = Len(unit.urls_to_try)
                   \/ (effect.exception # "none" /\ ~Caught(effect.exception))
    IN  /\ FLASK_APP_URL' = IF effect.records THEN url ELSE FLASK_APP_URL
        /\ units' = [units EXCEPT ![i] = [@ EXCEPT !.attempt = attempt,
                                                    !.pc = IF over THEN after_pc ELSE @,
                                                    !.logged =
                                                        IF fn = "log_verification_http" /\ over
                                                        THEN IF effect.returns THEN "success"
                                                             ELSE "failed"
                                                        ELSE @]]
        /\ lastStep' = [unit |-> i, fn |-> fn, response |-> response,
                        failed |-> AttemptFailed(effect, response)]
        /\ UNCHANGED << loopFrames, call >>

\* Mutant of UnitStartLogVerification: the worker goes straight to
\* process_order_fulfillment.
UnitSkipLogVerification ==
    /\ \E i \in 1..Len(units) :
          /\ units[i].pc = "spawned"
          /\ UnitStart(i, "process_order_fulfillment", "order")
    /\ UNCHANGED << engineVars, lastMatch, cacheDir, cacheFile, lastLoad, program, trackVars, engineLoopVars, lastCache, moveVars, navVars >>

\* _worker, line 518: log_verification_http(...) begins.
UnitStartLogVerification ==
    /\ \E i \in 1..Len(units) :
          /\ units[i].pc = "spawned"
          /\ UnitStart(i, "log_verification_http", "log")
    /\ UNCHANGED << engineVars, lastMatch, cacheDir, cacheFile, lastLoad, program, trackVars, engineLoopVars, lastCache, moveVars, navVars >>

UnitLogVerificationAttempt ==
    /\ \E i \in 1..Len(units), response \in Responses :
          /\ units[i].pc = "log"
          /\ UnitAttempt(i, "log_verification_http", LogVerificationEffect(response),
                         response, "logged")
    /\ UNCHANGED << engineVars, lastMatch, cacheDir, cacheFile, lastLoad, program, trackVars, engineLoopVars, lastCache, moveVars, navVars >>

\* _worker, lines 522-527: without a banner id the worker returns; otherwise
\* process_order_fulfillment(...) begins.
UnitStartProcessOrder ==
    /\ \E i \in 1..Len(units) :
          /\ units[i].pc = "logged"
          /\ IF Truthy(units[i].banner_id)
             THEN UnitStart(i, "process_order_fulfillment", "order")
             ELSE UnitStart(i, "_worker", "done")
    /\ UNCHANGED << engineVars, lastMatch, cacheDir, cacheFile, lastLoad, program, trackVars, engineLoopVars, lastCache, moveVars, navVars >>

UnitProcessOrderAttempt ==
    /\ \E i \in 1..Len(units), response \in Responses :
          /\ units[i].pc = "order"
          /\ UnitAttempt(i, "process_order_fulfillment", ProcessOrderEffect(response),
                         response, "done")
    /\ UNCHANGED << engineVars, lastMatch, cacheDir, cacheFile, lastLoad, program, trackVars, engineLoopVars, lastCache, moveVars, navVars >>

\* The integrated system running with the default primary URL.
InitDispatch ==
    /\ program = "core"
    /\ known_encodings = <<>>
    /\ known_names = <<>>
    /\ match_threshold = MATCH_THRESHOLD
    /\ lastMatch = NoMatch
    /\ cacheDir = "ok"
    /\ cacheFile = AbsentFile
    /\ lastLoad = NoLoad
    /\ TrackerIdle
    /\ HttpIdle
    /\ EngineLoopIdle
    /\ lastCache = NoCacheOp
    /\ MoveIdle
    /\ NavIdle

NextDispatch ==
    \/ DispatchAsyncEvents
    \/ LoopIterationInFlight
    \/ UnitStartLogVerification
    \/ UnitLogVerificationAttempt
    \/ UnitStartProcessOrder
    \/ UnitProcessOrderAttempt

SpecDispatch == InitDispatch /\ [][NextDispatch]_vars

\* One worker on its own, from the moment _dispatch_async_events has started
\* it with the event's face_data (whose banner_id may be missing, line 522),
\* whatever primary URL earlier calls have left.
InitWorker ==
    /\ program = "core"
    /\ known_encodings = <<>>
    /\ known_names = <<>>
    /\ match_threshold = MATCH_THRESHOLD
    /\ lastMatch = NoMatch
    /\ cacheDir = "ok"
    /\ cacheFile = AbsentFile
    /\ lastLoad = NoLoad
    /\ TrackerIdle
    /\ FLASK_APP_URL \in { DefaultFlaskUrl, CustomFlaskUrl }
    /\ call = NoCall
    /\ \E banner_id \in { "B001", None } : units = << SpawnedUnit(banner_id) >>
    /\ loopFrames = 0
    /\ lastStep = NoStep
    /\ EngineLoopIdle
    /\ lastCache = NoCacheOp
    /\ MoveIdle
    /\ NavIdle

NextWorker ==
    \/ UnitStartLogVerification
    \/ UnitLogVerificationAttempt
    \/ UnitStartProcessOrder
    \/ UnitProcessOrderAttempt

SpecWorker == InitWorker /\ [][NextWorker]_vars


(***************************************************************************)
(* Claims about the tracker and the event loop.                            *)
(***************************************************************************)
\* The track ids the latest call gave to its detections.
AssignedIds(update) == { update.assigned[i] : i \in 1..Len(update.assigned) }

\* The tracks of the set that no detection of the call about to be recorded
\* in update was matched to.
UnmatchedTracks(tracking, update) ==
    { i \in 1..Len(tracking) : tracking[i].track_id \notin AssignedIds(update) }

\* C5 as stated: in every update step, a track that existed before the call
\* and that no detection of the call was matched to is absent afterwards if
\* and only if now - lastSeen is strictly greater than the persistence window.
C5_RemovedIffBeyondWindow ==
    [][ \A i \in UnmatchedTracks(face_tracking, lastUpdate') :
            (IndexOf(face_tracking', face_tracking[i].track_id) = 0)
            <=> (clock' - face_tracking[i].last_seen > FACE_PERSISTENCE_TIME) ]_vars

\* C5 amended: in every update step, a track that existed before the call and
\* that no detection of the call was matched to is absent afterwards if and
\* only if now - lastSeen is at least the persistence window; it stays only
\* while now - lastSeen is strictly less than the window.
C5_RemovedIffWindowReached ==
    [][ \A i \in UnmatchedTracks(face_tracking, lastUpdate') :
            (IndexOf(face_tracking', face_tracking[i].track_id) = 0)
            <=> (clock' - face_tracking[i].last_seen >= FACE_PERSISTENCE_TIME) ]_vars

\* A call has just removed a track last seen exactly the window ago and has
\* kept another unmatched track last seen more recently.
C5_Witness ==
    /\ lastUpdate.time = clock
    /\ \E r \in lastUpdate.removed : clock - r.last_seen = FACE_PERSISTENCE_TIME
    /\ \E i \in UnmatchedTracks(face_tracking, lastUpdate) :
          /\ face_tracking[i].last_seen < clock
          /\ clock - face_tracking[i].last_seen < FACE_PERSISTENCE_TIME

\* C6: in every update step, no detection is given the track id of a track
\* whose now - lastSeen exceeds the persistence window: a face that
\* reappears at the place of an expired track gets a newly minted id.
C6_NoReuseAfterExpiry ==
    [][ \A i \in 1..Len(face_tracking) :
            clock' - face_tracking[i].last_seen > FACE_PERSISTENCE_TIME
            => face_tracking[i].track_id \notin AssignedIds(lastUpdate') ]_vars

\* C7: while the tracker, starting empty, has been fed one and the same
\* matched result in every call, it holds exactly one track, with the track
\* id and the first_recognized time of the first call.
C7_SameResultOneTrack ==
    feed.state = "same" =>
        /\ Len(face_tracking) = 1
        /\ face_tracking[1].track_id = feed.track_id
        /\ face_tracking[1].first_recognized = << feed.first >>

\* The same matched result has been fed at least twice, the last time later
\* than the first.
C7_Witness ==
    /\ feed.state = "same"
    /\ clock > feed.first + FACE_PERSISTENCE_TIME
    /\ lastUpdate.time = clock
    /\ lastUpdate.assigned = << feed.track_id >>

\* The cooldown of the running program.
CooldownOf(prog) == IF prog = "core" THEN recognition_cooldown ELSE legacy_recognition_cooldown

\* C8: one loop iteration dispatches at most one recognition event, and two
\* consecutively dispatched events are more than the cooldown apart.
C8_GlobalCooldown ==
    /\ Len(lastEvents) <= 1
    /\ prevEventTime # << >> =>
          last_recognition_time - prevEventTime[1] > CooldownOf(program)

\* Two matched tracks with banner ids are in view, an event has just been
\* dispatched, and it was not the first one.
C8_Witness ==
    /\ program = "core"
    /\ Len(lastEvents) = 1
    /\ prevEventTime # << >>
    /\ last_recognition_time = clock
    /\ Cardinality({ i \in 1..Len(face_tracking) :
                        face_tracking[i].matched /\ Truthy(face_tracking[i].banner_id) }) = 2

\* Two matched faces were in one frame of run_camera_loop and an event was
\* dispatched, not the first one.
C8_LegacyWitness ==
    /\ program = "legacy"
    /\ Len(lastEvents) = 1
    /\ prevEventTime # << >>

\* C23: in every update step, for each track upserted by the call,
\* first_recognized is the time of the call exactly when the detection is
\* matched and the track was unmatched before the call or did not exist; in
\* every other case it is the value the track had before the call, and
\* nothing for a track that did not exist.
C23_FirstRecognizedRule ==
    [][ \A i \in 1..Len(face_tracking') :
            face_tracking'[i].track_id \in AssignedIds(lastUpdate') =>
                LET entry == face_tracking'[i]
                    p     == IndexOf(face_tracking, entry.track_id)
                IN  entry.first_recognized =
                        (IF entry.matched /\ (p = 0 \/ ~face_tracking[p].matched)
                         THEN << clock' >>
                         ELSE IF p # 0 THEN face_tracking[p].first_recognized
                         ELSE << >>) ]_vars

\* C23 witness: a call has just turned a track created earlier as unmatched
\* into a matched one and set its first_recognized to the time of the call.
C23_Witness ==
    /\ lastUpdate.time = clock
    /\ \E i \in 1..Len(face_tracking) :
          /\ face_tracking[i].track_id \in AssignedIds(lastUpdate)
          /\ face_tracking[i].track_id[2] < clock
          /\ face_tracking[i].matched
          /\ face_tracking[i].first_recognized = << clock >>

\* The tracks of the set lying within the pixel tolerance of a centre, by
\* their position in the set.
TracksNear(tracking, center) ==
    { j \in 1..Len(tracking) :
        (center[1] - tracking[j].center[1]) * (center[1] - tracking[j].center[1])
          + (center[2] - tracking[j].center[2]) * (center[2] - tracking[j].center[2])
        < 50 * 50 }

\* The last detection of the frame that was given the track id.
LastAssigned(update, track_id) ==
    CHOOSE i \in 1..Len(update.assigned) :
        /\ update.assigned[i] = track_id
        /\ \A j \in 1..Len(update.assigned) : update.assigned[j] = track_id => j <= i

\* C24: in every update step each detection takes the id of the first track of
\* the set, in set order, whose centre is within 50 pixels of the detection's
\* centre, whether or not a later track is nearer, and an id not in the set
\* only when no track is within 50 pixels; and the track of every assigned id
\* holds the box, centre, name and match flag of the last detection of the
\* frame that took the id.
C24_FirstFit ==
    [][ /\ \A i \in 1..Len(lastUpdate'.results) :
              LET center == FaceCenter(lastUpdate'.results[i].box)
                  near   == TracksNear(face_tracking, center)
              IN  IF near = {}
                  THEN IndexOf(face_tracking, lastUpdate'.assigned[i]) = 0
                  ELSE \E j \in near :
                          /\ \A k \in near : j <= k
                          /\ lastUpdate'.assigned[i] = face_tracking[j].track_id
        /\ \A id \in AssignedIds(lastUpdate') :
              LET entry  == face_tracking'[IndexOf(face_tracking', id)]
                  result == lastUpdate'.results[LastAssigned(lastUpdate', id)]
              IN  /\ IndexOf(face_tracking', id) # 0
                  /\ entry.box = result.box
                  /\ entry.center = FaceCenter(result.box)
                  /\ entry.name = result.name
                  /\ entry.matched = result.matched ]_vars

\* C24 witness: after a frame with the two people created a track at (100,100)
\* and then one at (150,100), the next frame holds a face 5 pixels from the
\* first centre and a face at (140,100), nearer to the second track; both took
\* the id of the first track, which now holds the data of the second
\* detection.
C24_Witness ==
    /\ clock = 6
    /\ lastUpdate.time = 6
    /\ lastUpdate.results = << AdaNear, UnknownMid >>
    /\ lastUpdate.assigned = << << "face", 5, 100, 100 >>, << "face", 5, 100, 100 >> >>
    /\ Len(face_tracking) = 2
    /\ face_tracking[1].track_id = << "face", 5, 100, 100 >>
    /\ face_tracking[1].center = << 140, 100 >>
    /\ face_tracking[1].name = "Unknown"
    /\ face_tracking[2].track_id = << "face", 5, 150, 100 >>
    /\ face_tracking[2].last_seen = 5

\* A step of process_face_recognition_events that dispatches an event; the
\* clock before the step is the time of the iteration's
\* update_face_tracking call.
EventStep == program = "core" /\ pc = "events" /\ pc' = "track" /\ Len(lastEvents') > 0

\* C22: an event is dispatched for a track only in an iteration where the
\* track is newly confirmed (its transition into matched happened in this
\* iteration's update) and the cooldown has elapsed; a track that remains
\* matched over later frames causes no further events.
C22_OnlyNewlyConfirmed ==
    [][ EventStep =>
           /\ lastEvents'[1].face.first_recognized = << clock >>
           /\ clock' - last_recognition_time > recognition_cooldown ]_vars

\* C28: an event is dispatched only for a track that was detected as
\* matched in the current frame (its last_seen is the time of this
\* iteration's update); a matched track that persists after its face left
\* the frame triggers no event.
C28_FaceInCurrentFrame ==
    [][ EventStep =>
           /\ lastEvents'[1].face.matched
           /\ lastEvents'[1].face.last_seen = clock ]_vars

\* The loop has just dispatched an event for the person with the banner id.
EventFor(banner_id) ==
    /\ pc = "track"
    /\ Len(lastEvents) > 0
    /\ lastEvents[1].face.banner_id = banner_id

\* While the two people stay in view the track set keeps its order, and
\* every event is dispatched for the first track of the set: the second
\* person is served at no time, however long the loop runs.
FirstTrackServed ==
    [][ /\ Len(face_tracking) = 2 =>
              /\ Len(face_tracking') = 2
              /\ face_tracking'[1].track_id = face_tracking[1].track_id
        /\ EventStep => lastEvents'[1].face.track_id = face_tracking[1].track_id ]_vars

\* The loop goes on dispatching events for ever.
EventsGoOn == []<>(pc = "track" /\ Len(lastEvents) > 0 /\ lastEvents[1].time = clock)

\* C29: while the two enrolled people stay matched and in view in every
\* frame, an event is eventually dispatched for each of them.
C29_NoStarvation == (<>EventFor("B001")) /\ (<>EventFor("B002"))

(***************************************************************************)
(* Claims about the HTTP helpers.                                          *)
(***************************************************************************)
\* C9: in a call of either helper, the first candidate that answers HTTP 200
\* ends the call (nothing is tried after it) and is recorded as the primary;
\* and a call tries first the URL that answered 200 in the call before it.
C9_StickyFirstSuccess ==
    /\ call.first200 # 0 =>
          /\ call.ret \in { "True", "False" }
          /\ Len(call.tried) = call.first200
          /\ FLASK_APP_URL = call.tried[call.first200]
    /\ (call.fn # "none" /\ call.prev200 # None) => call.urls_to_try[1] = call.prev200

\* The URLs of a list, as a set.
UrlSet(urls) == { urls[i] : i \in 1..Len(urls) }

\* C10: while every candidate tried in a call has failed (connection error,
\* timeout or non-200) the remembered primary is the one the call started
\* with; and when such a call is over it has returned False without raising
\* and has tried each candidate (the primary and every alternate) exactly
\* once.
C10_FailureContained ==
    (call.fn # "none" /\ call.allFailed) =>
        /\ FLASK_APP_URL = call.primary0
        /\ call.ret \in { "running", "False" }
        /\ Cardinality(UrlSet(call.tried)) = Len(call.tried)
        /\ call.ret = "False" =>
              /\ call.tried = call.urls_to_try
              /\ UrlSet(call.tried) = { call.primary0 } \cup UrlSet(ALTERNATIVE_FLASK_URLS)

\* A process_order_fulfillment call, started after an earlier call had moved
\* the primary to the last alternate, has failed at every candidate.
C10_Witness ==
    /\ call.fn = "process_order_fulfillment"
    /\ call.ret = "False"
    /\ call.allFailed
    /\ call.prev200 = ALTERNATIVE_FLASK_URLS[5]
    /\ call.primary0 = ALTERNATIVE_FLASK_URLS[5]
    /\ Len(call.tried) = Len(ALTERNATIVE_FLASK_URLS)

\* C30: the first call of a run tries the configured primary and the fixed
\* alternates, and every later call tries the same set of base URLs as the
\* call before it, whatever the calls in between returned; only the order
\* changes.
C30_StableCandidateSet ==
    [][ call'.fn # "none" =>
           IF call.fn = "none"
           THEN UrlSet(call'.urls_to_try) = { FLASK_APP_URL } \cup UrlSet(ALTERNATIVE_FLASK_URLS)
           ELSE UrlSet(call'.urls_to_try) = UrlSet(call.urls_to_try) ]_vars

(***************************************************************************)
(* Claims about event dispatch.                                            *)
(***************************************************************************)
\* C11: a dispatch step starts the event's worker and returns to the loop
\* before the worker has made any HTTP call, and the loop's own steps go on
\* while workers run; a step of one worker that ends in a failure, a timeout
\* or an exception leaves the remembered primary URL (from which every
\* other worker's next call takes its candidate order), every other worker
\* and the loop as they were.
C11_FireAndForget ==
    [][ /\ lastStep'.fn = "_dispatch_async_events" /\ units' # units =>
              /\ units'[lastStep'.unit].pc = "spawned"
              /\ units'[lastStep'.unit].attempt = 0
              /\ FLASK_APP_URL' = FLASK_APP_URL
        /\ lastStep'.fn = "run_integrated_system" /\ loopFrames' # loopFrames =>
              /\ units' = units
              /\ \E i \in 1..Len(units) : InFlight(units[i])
        /\ lastStep'.failed /\ units' # units =>
              /\ FLASK_APP_URL' = FLASK_APP_URL
              /\ loopFrames' = loopFrames
              /\ Len(units') = Len(units)
              /\ \A j \in 1..Len(units) : j # lastStep'.unit => units'[j] = units[j] ]_vars

\* A step in which worker i posts an order-fulfilment request.
OrderRequestBy(i) ==
    /\ lastStep'.unit = i
    /\ lastStep'.fn = "process_order_fulfillment"
    /\ units'[i].attempt = units[i].attempt + 1

\* C25: in every step of a worker, the first thing it does is begin the
\* verification-log call; it posts an order-fulfilment request only after
\* that call has ended (with a success or with every candidate failed) and
\* only for an event with a banner id; once the log call has ended, its next
\* step begins the order call when the event has a banner id, whether the
\* log call succeeded or failed, and ends the worker when it has none; and
\* the worker ends having posted an order request exactly when the event has
\* a banner id.
C25_LogThenOrder ==
    [][ \A i \in 1..Len(units) :
          units'[i] # units[i] =>
            /\ units[i].pc = "spawned" =>
                  units'[i].pc = "log" /\ lastStep'.fn = "log_verification_http"
            /\ OrderRequestBy(i) =>
                  /\ units[i].logged \in { "success", "failed" }
                  /\ Truthy(units[i].banner_id)
            /\ units[i].pc = "logged" =>
                  /\ units[i].logged \in { "success", "failed" }
                  /\ units'[i].pc = IF Truthy(units[i].banner_id) THEN "order" ELSE "done"
            /\ units[i].pc = "order" => OrderRequestBy(i)
            /\ units'[i].pc = "done" =>
                  (OrderRequestBy(i) <=> Truthy(units[i].banner_id)) ]_vars

\* C25 witness: the verification-log call of an event with a banner id failed
\* on every candidate, and the worker has posted its order request.
C25_Witness ==
    /\ Len(units) = 1
    /\ units[1].logged = "failed"
    /\ Truthy(units[1].banner_id)
    /\ units[1].pc = "order"
    /\ units[1].attempt = 1
    /\ lastStep.fn = "process_order_fulfillment"
    /\ lastStep.response = "ok_json_list"

(***************************************************************************)
(* FaceRecognitionEngine.analyze_frame and its periodic refresh            *)
(* (recognition_core.py:280-297, 315-326, 344-390).                        *)
(***************************************************************************)
MaxCalls == 4         \* most analyze_frame calls in one run
MaxEngineTime == 450  \* latest time of a call

FRAME_SKIP == 3
DB_REFRESH_INTERVAL == 300

\* scale = 1.0 / self.frame_scale with FRAME_SCALE = 0.5.
BoxScale == 2

\* frame_skip as passed to the constructor: 0, 2 and the default.
FrameSkipArgs == { 0, 2, FRAME_SKIP }

\* Time between two calls.
RefreshGaps == { 0, DB_REFRESH_INTERVAL \div 2, DB_REFRESH_INTERVAL }

\* Faces of the scene: the enrolled person and a stranger.
Face(location, encoding) == [location |-> location, encoding |-> encoding]

DetectedFaces == { Face(<<20, 60, 60, 20>>, <<3, 4>>), Face(<<20, 160, 60, 120>>, <<0, 21>>) }

ImageFrame(faces) == [is_none |-> FALSE, faces |-> faces]

EngineFrames == { NoFrame } \cup { ImageFrame(f) : f \in SeqsUpTo(DetectedFaces, MaxFaces) }

\* The remote store as the engine's loads find it: not configured,
\* unreachable, or up with at most one well-formed row.
EngineDbStates ==
    { d \in DbStates : /\ d.mode # "query_error"
                       /\ Len(d.rows) <= 1
                       /\ \A i \in 1..Len(d.rows) :
                             d.rows[i].encoding.nbytes = ENCODING_SIZE * 8 }

\* (int(top * scale), int(right * scale), int(bottom * scale), int(left * scale))
ScaledBox(location) == [i \in 1..4 |-> location[i] * BoxScale]

RecognitionResult(match, box) ==
    [name |-> match.name, matched |-> match.matched, confidence |-> match.confidence,
     banner_id |-> match.banner_id, box |-> box]

\* The for loop of analyze_frame, lines 366-384.
ResultsOf(faces, encs, names, threshold) ==
    [i \in 1..Len(faces) |->
        RecognitionResult(match_face_encoding(encs, names, threshold, faces[i].encoding),
                          ScaledBox(faces[i].location))]

AnalyzeOutcome(results, counter, detected, at_end) ==
    [results |-> results, frame_counter |-> counter, detected |-> detected,
     at_end |-> at_end]

\* analyze_frame up to its refresh check (lines 344-384): the results, the
\* counter afterwards, whether the detector ran, and whether control
\* reached the check at lines 386-388.
analyze_frame(frame, skip_frame_check, encs, names, threshold, counter, skip) ==
    IF frame.is_none
    THEN AnalyzeOutcome(<< >>, counter, FALSE, FALSE)
    ELSE IF Len(encs) = 0
    THEN AnalyzeOutcome(<< >>, counter, FALSE, FALSE)
    ELSE IF ~skip_frame_check /\ (counter + 1) % skip # 0
    THEN AnalyzeOutcome(<< >>, counter + 1, FALSE, FALSE)
    ELSE IF Len(frame.faces) = 0
    THEN AnalyzeOutcome(<< >>, counter + 1, TRUE, FALSE)
    ELSE AnalyzeOutcome(ResultsOf(frame.faces, encs, names, threshold),
                        counter + 1, TRUE, TRUE)

\* should_refresh (line 326) at time now.
should_refresh(now, refreshed_at) == (now - refreshed_at) >= DB_REFRESH_INTERVAL

\* One call of analyze_frame after dt seconds, with the remote store as the
\* refresh (if it happens) finds it.  refresh_known_faces runs inside
\* contextlib.suppress(Exception): when the load raises nothing is assigned
\* and _last_refresh keeps its value.
AnalyzeFrame ==
    /\ program = "core"
    /\ lastAnalyze.k < MaxCalls
    /\ \E dt \in RefreshGaps, frame \in EngineFrames, skip_frame_check \in BOOLEAN :
          LET now == clock + dt
              out == analyze_frame(frame, skip_frame_check, known_encodings, known_names,
                                   match_threshold, frame_counter, frame_skip)
          IN  /\ now <= MaxEngineTime
              /\ clock' = now
              /\ frame_counter' = out.frame_counter
              /\ lastAnalyze' =
                    [k |-> lastAnalyze.k + 1,
                     unforced |-> lastAnalyze.unforced /\ ~skip_frame_check,
                     frame |-> frame, skip_frame_check |-> skip_frame_check,
                     empty_known |-> Len(known_encodings) = 0,
                     detected |-> out.detected, results |-> out.results,
                     elapsed |-> now - last_refresh,
                     refreshed |-> out.at_end /\ should_refresh(now, last_refresh)]
              /\ IF lastAnalyze'.refreshed
                 THEN \E db \in EngineDbStates :
                         LET load == load_encodings(FALSE, db, cacheDir, cacheFile)
                         IN  /\ cacheFile' = load.file
                             /\ IF load.raised
                                THEN UNCHANGED << known_encodings, known_names, last_refresh >>
                                ELSE /\ known_encodings' = load.encodings
                                     /\ known_names' = load.names
                                     /\ last_refresh' = now
                 ELSE UNCHANGED << known_encodings, known_names, last_refresh, cacheFile >>
    /\ UNCHANGED << match_threshold, lastMatch, cacheDir, lastLoad, program, frame_skip >>
    /\ UNCHANGED << face_tracking, last_recognition_time, pc, lastUpdate, lastEvents,
                    prevEventTime, feed, httpVars, dispatchVars, captureVars, lastCache, moveVars, navVars >>

\* The cache directory becomes writable or impossible to create between
\* two calls.
EngineCacheEnvChange ==
    /\ lastAnalyze.k < MaxCalls
    /\ \E d \in { "ok", "blocked" } :
          /\ d # cacheDir
          /\ cacheDir' = d
          /\ cacheFile' = IF d = "blocked" THEN AbsentFile ELSE cacheFile
    /\ UNCHANGED << engineVars, lastMatch, lastLoad, program, trackVars, httpVars,
                    dispatchVars, engineLoopVars, lastCache, moveVars, navVars >>

\* FaceRecognitionEngine(frame_skip=...) just constructed at time 0: the
\* first load has run against an empty cache.
InitEngine ==
    /\ program = "core"
    /\ match_threshold = MATCH_THRESHOLD
    /\ lastMatch = NoMatch
    /\ cacheDir = "ok"
    /\ lastLoad = NoLoad
    /\ \E db \in EngineDbStates :
          LET load == load_encodings(FALSE, db, "ok", AbsentFile)
          IN  /\ ~load.raised
              /\ known_encodings = load.encodings
              /\ known_names = load.names
              /\ cacheFile = load.file
    /\ TrackerIdle
    /\ HttpIdle
    /\ \E arg \in FrameSkipArgs : frame_skip = Max(1, arg)
    /\ frame_counter = 0
    /\ last_refresh = 0
    /\ lastAnalyze = NoAnalyze
    /\ camera_backend = None
    /\ failure_count = 0
    /\ loop_pc = "running"
    /\ lastCapture = NoCapture
    /\ lastCache = NoCacheOp
    /\ MoveIdle
    /\ NavIdle

NextEngine ==
    \/ AnalyzeFrame
    \/ EngineCacheEnvChange

SpecEngine == InitEngine /\ [][NextEngine]_vars

(***************************************************************************)
(* Claims about analyze_frame.                                             *)
(***************************************************************************)
\* C12: in every call made on a captured frame when the time since the
\* last refresh has reached the refresh interval, the refresh is called in
\* that call, whatever the frame contains and whatever the current known
\* set is.
C12_RefreshWheneverDue ==
    /\ lastAnalyze.k > 0
    /\ ~lastAnalyze.frame.is_none
    /\ lastAnalyze.elapsed >= DB_REFRESH_INTERVAL
    => lastAnalyze.refreshed

\* C14: whenever a frame is analysed (the call is forced, or the detector
\* ran), whatever the known set, the results are one per detected face in
\* detection order, a face that matches nobody is an explicit "Unknown"
\* result, and an empty list means no face was detected.
C14_OneResultPerFace ==
    /\ lastAnalyze.k > 0
    /\ ~lastAnalyze.frame.is_none
    /\ lastAnalyze.skip_frame_check \/ lastAnalyze.detected
    => /\ Len(lastAnalyze.results) = Len(lastAnalyze.frame.faces)
       /\ \A i \in 1..Len(lastAnalyze.results) :
             /\ lastAnalyze.results[i].box = ScaledBox(lastAnalyze.frame.faces[i].location)
             /\ ~lastAnalyze.results[i].matched =>
                   /\ lastAnalyze.results[i].name = "Unknown"
                   /\ lastAnalyze.results[i].banner_id = None

\* C15: in a run of calls all made with skip_frame_check=False, the k-th
\* call runs the detector exactly when k is a multiple of the skip factor
\* and every other call returns an empty list; a call made with
\* skip_frame_check=True always runs the detector.
C15_EveryNthFrame ==
    lastAnalyze.k > 0 =>
       /\ lastAnalyze.unforced =>
             /\ lastAnalyze.detected <=> (lastAnalyze.k % frame_skip = 0)
             /\ lastAnalyze.k % frame_skip # 0 => lastAnalyze.results = << >>
       /\ lastAnalyze.skip_frame_check => lastAnalyze.detected

(***************************************************************************)
(* Capture handling of run_integrated_system                               *)
(* (integrated_recognition_system.py:665-764) and _initialize_camera       *)
(* (lines 239-379).                                                        *)
(***************************************************************************)
MaxIterations == 12   \* most loop iterations in one run

max_failures_before_reinit == 5

\* The values _initialize_camera gives self.camera_backend when it returns
\* True (lines 277, 304, 349, 369).
CameraBackends == { "robot_interface", "picamera2", "opencv" }

\* What _initialize_camera does when called from the loop: it returns True
\* with a backend selected, or returns False with camera_backend = None
\* (lines 289, 378).
ReinitOutcomes == CameraBackends \cup { None }

\* One iteration of the while loop up to the analysis of the frame: the
\* active backend delivers a frame or not (lines 676-764; the three
\* branches count and react alike).  A frame resets failure_count and the
\* iteration goes on to analyse it; a failure increments failure_count and,
\* once it reaches max_failures_before_reinit, _initialize_camera is
\* called: the loop breaks when it returns False, otherwise failure_count
\* is reset; then sleep(0.1) and continue.
CaptureFrame ==
    /\ loop_pc = "running"
    /\ lastCapture.n < MaxIterations
    /\ \E ok \in BOOLEAN, outcome \in ReinitOutcomes :
          LET count  == failure_count + 1
              reinit == ~ok /\ count >= max_failures_before_reinit
          IN  /\ reinit \/ outcome = None
              /\ failure_count' = IF ok THEN 0
                                  ELSE IF reinit /\ outcome # None THEN 0
                                  ELSE count
              /\ camera_backend' = IF reinit THEN outcome ELSE camera_backend
              /\ loop_pc' = IF reinit /\ outcome = None THEN "stopped" ELSE "running"
              /\ lastCapture' = [n |-> lastCapture.n + 1, ok |-> ok,
                                 reinit |-> IF ~reinit THEN "none"
                                            ELSE IF outcome = None THEN "failed" ELSE "ok",
                                 before |-> failure_count]
    /\ UNCHANGED << engineVars, lastMatch, cacheDir, cacheFile, lastLoad, program,
                    trackVars, httpVars, dispatchVars, analyzeVars, lastCache,
                    moveVars, navVars >>

\* The loop entered: _initialize_camera returned True at line 659.
InitCapture ==
    /\ program = "core"
    /\ known_encodings = <<>>
    /\ known_names = <<>>
    /\ match_threshold = MATCH_THRESHOLD
    /\ lastMatch = NoMatch
    /\ cacheDir = "ok"
    /\ cacheFile = AbsentFile
    /\ lastLoad = NoLoad
    /\ TrackerIdle
    /\ HttpIdle
    /\ frame_skip = 1
    /\ frame_counter = 0
    /\ last_refresh = 0
    /\ lastAnalyze = NoAnalyze
    /\ camera_backend \in CameraBackends
    /\ failure_count = 0
    /\ loop_pc = "running"
    /\ lastCapture = NoCapture
    /\ lastCache = NoCacheOp
    /\ MoveIdle
    /\ NavIdle

NextCapture == CaptureFrame

SpecCapture == InitCapture /\ [][NextCapture]_vars

(***************************************************************************)
(* Claims about capture failures.                                          *)
(***************************************************************************)
\* C13: a frame that cannot be obtained is counted and the loop goes on; the
\* fifth consecutive failure re-initialises the capture source and resets
\* the counter, a frame resets it too, and the loop never stops because of
\* capture failures.
C13_CaptureFailureNeverFatal ==
    /\ loop_pc = "running"
    /\ lastCapture.n > 0 =>
          /\ lastCapture.ok => failure_count = 0 /\ lastCapture.reinit = "none"
          /\ ~lastCapture.ok /\ lastCapture.before + 1 < 5 =>
                failure_count = lastCapture.before + 1 /\ lastCapture.reinit = "none"
          /\ ~lastCapture.ok /\ lastCapture.before + 1 >= 5 =>
                failure_count = 0 /\ lastCapture.reinit = "ok"

(***************************************************************************)
(* The cache functions called on their own: save_encodings_cache and       *)
(* load_encodings_cache (recognition_core.py:91-124).                      *)
(***************************************************************************)
MaxSaves == 2   \* most saves in one run

\* The cache file found at the start: none, an unreadable one, or an
\* archive written earlier.  A directory that cannot be created holds none.
InitialCacheFiles(dir) ==
    IF dir = "blocked" THEN { AbsentFile }
    ELSE { AbsentFile, CorruptFile, NpzFile(<< <<12, 5>> >>, << <<"B001", "Ada Lovelace">> >>) }

\* The lists handed to save_encodings_cache: identities with their
\* encodings, in any order, repeats included.
CacheLists ==
    SeqsUpTo({ id \in KnownIdentities : id.encoding \in { <<3, 4>>, <<5, 12>> } }, MaxKnown)

\* save_encodings_cache(encodings, names) for a non-empty list: what it
\* returns ("True", "False") or that it raised.
SaveEncodingsCache ==
    /\ lastCache.saves < MaxSaves
    /\ \E k \in CacheLists :
          LET encodings == [i \in 1..Len(k) |-> k[i].encoding]
              names     == [i \in 1..Len(k) |-> k[i].names]
              out       == save_encodings_cache(cacheDir, cacheFile, encodings, names)
          IN  /\ Len(k) > 0
              /\ cacheFile' = out.file
              /\ lastCache' = [op |-> "save", saves |-> lastCache.saves + 1,
                               encodings |-> encodings, names |-> names,
                               returned |-> IF out.raised THEN "raised"
                                            ELSE IF out.saved THEN "True" ELSE "False",
                               loaded |-> NoCacheOp.loaded]
    /\ UNCHANGED << engineVars, lastMatch, cacheDir, lastLoad, program, trackVars,
                    httpVars, dispatchVars, engineLoopVars, moveVars, navVars >>

\* load_encodings_cache().
LoadEncodingsCache ==
    /\ lastCache.op # "load"
    /\ lastCache' = [lastCache EXCEPT !.op = "load",
                                      !.loaded = load_encodings_cache(cacheFile)]
    /\ UNCHANGED << engineVars, lastMatch, cacheDir, cacheFile, lastLoad, program,
                    trackVars, httpVars, dispatchVars, engineLoopVars, moveVars, navVars >>

InitCache ==
    /\ program = "core"
    /\ known_encodings = <<>>
    /\ known_names = <<>>
    /\ match_threshold = MATCH_THRESHOLD
    /\ lastMatch = NoMatch
    /\ cacheDir \in { "ok", "readonly", "blocked" }
    /\ cacheFile \in InitialCacheFiles(cacheDir)
    /\ lastLoad = NoLoad
    /\ TrackerIdle
    /\ HttpIdle
    /\ EngineLoopIdle
    /\ lastCache = NoCacheOp
    /\ MoveIdle
    /\ NavIdle

NextCache ==
    \/ SaveEncodingsCache
    \/ LoadEncodingsCache

SpecCache == InitCache /\ [][NextCache]_vars

(***************************************************************************)
(* Claims about the cache functions.                                       *)
(***************************************************************************)
\* What the load returned is what the latest save was given.
LoadedLatestSave ==
    /\ lastCache.loaded.found
    /\ lastCache.loaded.encodings = lastCache.encodings
    /\ lastCache.loaded.names = lastCache.names

MaxMoveTime == 14     \* latest time of a call
MaxDetections == 2    \* longest detection list handed to handle_traffic_signs

confidence_threshold == 75
stop_duration == 3
stop_cooldown == 5

\* confidence > (self.confidence_threshold + 0.1)
PersonMargin == 10

\* Time between two calls.
MoveGaps == { 0, 2, 4 }

\* What the sign detector reports: a class and a confidence, at the
\* threshold or above it.
Detections ==
    { [class |-> c, confidence |-> k] :
         c \in { "stop sign", "person", "traffic light" }, k \in { confidence_threshold, 90 } }

\* The guard of start_movement and stop_movement (lines 101, 120).
CanMove == enable_movement_control /\ robot_interface # None

\* stop_movement (lines 118-134): the value of is_moving afterwards.
stop_movement(moving) == IF ~CanMove THEN moving ELSE FALSE

\* start_movement (lines 99-116): the value of is_moving afterwards.
start_movement(moving) == IF ~CanMove THEN moving ELSE TRUE

\* (current_time - self.last_stop_time) > self.stop_cooldown
StopCooldownElapsed(current_time, last_time) == (current_time - last_time) > stop_cooldown

\* The for loop of handle_traffic_signs (lines 143-177) on the rest of the
\* list: is_moving and last_stop_time afterwards.
RECURSIVE HandleDetections(_, _, _, _)
HandleDetections(detections, moving, last_time, current_time) ==
    IF Len(detections) = 0 THEN [is_moving |-> moving, last_stop_time |-> last_time]
    ELSE LET detection == Head(detections)
             rest      == Tail(detections)
         IN  IF detection.class = "stop sign" /\ detection.confidence > confidence_threshold
             THEN IF StopCooldownElapsed(current_time, last_time)
                  THEN HandleDetections(rest, stop_movement(moving), current_time, current_time)
                  ELSE HandleDetections(rest, moving, last_time, current_time)
             ELSE IF /\ detection.class = "person"
                     /\ detection.confidence > confidence_threshold + PersonMargin
             THEN IF moving
                  THEN HandleDetections(rest, stop_movement(moving), last_time, current_time)
                  ELSE HandleDetections(rest, moving, last_time, current_time)
             ELSE HandleDetections(rest, moving, last_time, current_time)

\* The time of a call made dt seconds after the previous one.
MoveTick(dt) == clock + dt <= MaxMoveTime /\ clock' = clock + dt

\* handle_traffic_signs(detections).
HandleTrafficSigns ==
    /\ \E dt \in MoveGaps, detections \in SeqsUpTo(Detections, MaxDetections) :
          /\ MoveTick(dt)
          /\ lastSigns' = [done |-> TRUE, detections |-> detections, was_moving |-> is_moving]
          /\ IF ~enable_movement_control \/ Len(detections) = 0
             THEN UNCHANGED << is_moving, last_stop_time >>
             ELSE LET out == HandleDetections(detections, is_moving, last_stop_time, clock')
                  IN  /\ is_moving' = out.is_moving
                      /\ last_stop_time' = out.last_stop_time
    /\ UNCHANGED << enable_movement_control, robot_interface, movement_enabled >>
    /\ UNCHANGED << engineVars, lastMatch, cacheDir, cacheFile, lastLoad, program,
                    face_tracking, last_recognition_time, pc, lastUpdate, lastEvents,
                    prevEventTime, feed, httpVars, dispatchVars, engineLoopVars, lastCache, navVars >>

\* check_resume_movement (lines 179-192).
CheckResumeMovement ==
    /\ \E dt \in MoveGaps : MoveTick(dt)
    /\ is_moving' = IF /\ enable_movement_control /\ movement_enabled
                       /\ ~is_moving
                       /\ last_stop_time > 0
                       /\ (clock' - last_stop_time) > stop_duration
                    THEN start_movement(is_moving)
                    ELSE is_moving
    /\ UNCHANGED << enable_movement_control, robot_interface, movement_enabled,
                    last_stop_time, lastSigns >>
    /\ UNCHANGED << engineVars, lastMatch, cacheDir, cacheFile, lastLoad, program,
                    face_tracking, last_recognition_time, pc, lastUpdate, lastEvents,
                    prevEventTime, feed, httpVars, dispatchVars, engineLoopVars, lastCache, navVars >>

\* run() at its start (lines 208-212) and the SPACE key while stopped
\* (lines 264-267): movement_enabled = True; start_movement().
EnableAndStart ==
    /\ enable_movement_control
    /\ ~is_moving
    /\ \E dt \in MoveGaps : MoveTick(dt)
    /\ movement_enabled' = TRUE
    /\ is_moving' = start_movement(is_moving)
    /\ UNCHANGED << enable_movement_control, robot_interface, last_stop_time, lastSigns >>
    /\ UNCHANGED << engineVars, lastMatch, cacheDir, cacheFile, lastLoad, program,
                    face_tracking, last_recognition_time, pc, lastUpdate, lastEvents,
                    prevEventTime, feed, httpVars, dispatchVars, engineLoopVars, lastCache, navVars >>

\* The SPACE key while moving (lines 260-263): stop_movement();
\* movement_enabled = False.
ManualPause ==
    /\ enable_movement_control
    /\ is_moving
    /\ \E dt \in MoveGaps : MoveTick(dt)
    /\ is_moving' = stop_movement(is_moving)
    /\ movement_enabled' = FALSE
    /\ UNCHANGED << enable_movement_control, robot_interface, last_stop_time, lastSigns >>
    /\ UNCHANGED << engineVars, lastMatch, cacheDir, cacheFile, lastLoad, program,
                    face_tracking, last_recognition_time, pc, lastUpdate, lastEvents,
                    prevEventTime, feed, httpVars, dispatchVars, engineLoopVars, lastCache, navVars >>

\* The system constructed, with or without movement control and a robot
\* interface; time.time() is further from 0 than the stop cooldown.
InitMove ==
    /\ program = "core"
    /\ known_encodings = <<>>
    /\ known_names = <<>>
    /\ match_threshold = MATCH_THRESHOLD
    /\ lastMatch = NoMatch
    /\ cacheDir = "ok"
    /\ cacheFile = AbsentFile
    /\ lastLoad = NoLoad
    /\ face_tracking = <<>>
    /\ last_recognition_time = 0
    /\ pc = "track"
    /\ lastUpdate = NoUpdate
    /\ lastEvents = <<>>
    /\ prevEventTime = <<>>
    /\ feed = [state |-> "none"]
    /\ clock = stop_cooldown + 1
    /\ HttpIdle
    /\ EngineLoopIdle
    /\ lastCache = NoCacheOp
    /\ enable_movement_control \in BOOLEAN
    /\ robot_interface \in { "sim", None }
    /\ is_moving = FALSE
    /\ movement_enabled = FALSE
    /\ last_stop_time = 0
    /\ lastSigns = NoSigns
    /\ NavIdle

NextMove ==
    \/ HandleTrafficSigns
    \/ CheckResumeMovement
    \/ EnableAndStart
    \/ ManualPause

SpecMove == InitMove /\ [][NextMove]_vars

(***************************************************************************)
(* Claims about movement control.                                          *)
(***************************************************************************)
\* The last call was given a stop sign with a confidence above the threshold.
SawStopSign ==
    \E i \in 1..Len(lastSigns.detections) :
        /\ lastSigns.detections[i].class = "stop sign"
        /\ lastSigns.detections[i].confidence > confidence_threshold

MaxThreads == 2        \* most navigation threads started in one run
MaxServerTime == 300   \* the clock stops advancing here

AdaRow ==
    [banner_id |-> "B001", first_name |-> "Ada", last_name |-> "Lovelace",
     encoding |-> Blob(ENCODING_SIZE * 8, <<3, 4>>)]

B002Row ==
    [banner_id |-> "B002", first_name |-> "", last_name |-> "",
     encoding |-> Blob(ENCODING_SIZE * 4, <<5, 12>>)]

\* The remote store as the shared engine's loads find it: up, with one or
\* both of the enrolled people.
NavDbStates ==
    { [configured |-> TRUE, mode |-> "up", rows |-> r] :
        r \in { << AdaRow >>, << B002Row >>, << B002Row, AdaRow >> } }

\* The frame the camera gives at the goal: the two people side by side.
NavFrame ==
    ImageFrame(<< Face(<<20, 60, 60, 20>>, <<3, 4>>), Face(<<20, 160, 60, 120>>, <<5, 12>>) >>)

\* What a load handed to the engine.
Loaded(encodings, names) == [encodings |-> encodings, names |-> names]

\* Thread(target=navigation_thread, ...).start(): the thread as it reaches
\* controller.perform_face_recognition().  faces and i are analyze_frame's
\* loop state, encs the list match_face_encoding has fetched from
\* self._known_encodings, loaded the pair refresh_known_faces holds in its
\* locals; reads is the history of what each match call read.
NavThread ==
    [pc |-> "arrived", faces |-> << >>, i |-> 0, encs |-> << >>, reads |-> << >>,
     results |-> << >>, loaded |-> Loaded(<< >>, << >>)]

\* Everything but the engine's state, the cache file and the threads.
navOtherVars ==
    << match_threshold, lastMatch, cacheDir, lastLoad, program, face_tracking,
       last_recognition_time, pc, lastUpdate, lastEvents, prevEventTime, feed, httpVars,
       dispatchVars, frame_skip, lastAnalyze, captureVars, lastCache, moveVars >>

\* set_goal (app.py:515-522): every POST /goal starts a daemon thread.
SetGoal ==
    /\ Len(nav_threads) < MaxThreads
    /\ nav_threads' = Append(nav_threads, NavThread)
    /\ UNCHANGED << known_encodings, known_names, cacheFile, clock, frame_counter,
                    last_refresh, engine_loads, navOtherVars >>

\* Time passes on the server.
ServerTimePasses ==
    /\ clock + DB_REFRESH_INTERVAL <= MaxServerTime
    /\ clock' = clock + DB_REFRESH_INTERVAL
    /\ UNCHANGED << known_encodings, known_names, cacheFile, frame_counter,
                    last_refresh, nav_threads, engine_loads, navOtherVars >>

\* perform_face_recognition calls analyze_frame(frame, skip_frame_check=True)
\* (robot_controller.py:127); analyze_frame up to the start of its for loop
\* (recognition_core.py:344-364).
NavAnalyzeFrame ==
    /\ \E t \in 1..Len(nav_threads) :
          LET out == analyze_frame(NavFrame, TRUE, known_encodings, known_names,
                                   match_threshold, frame_counter, frame_skip)
          IN  /\ nav_threads[t].pc = "arrived"
              /\ frame_counter' = out.frame_counter
              /\ nav_threads' = [nav_threads EXCEPT ![t] =
                    [@ EXCEPT !.pc = IF out.at_end THEN "distances" ELSE "done",
                              !.faces = IF out.at_end THEN NavFrame.faces ELSE << >>,
                              !.i = 1]]
    /\ UNCHANGED << known_encodings, known_names, cacheFile, clock, last_refresh,
                    engine_loads, navOtherVars >>

\* match_face_encoding, lines 329-334: self._known_encodings is fetched and
\* the distances are computed from it.
NavMatchDistances ==
    /\ \E t \in 1..Len(nav_threads) :
          /\ nav_threads[t].pc = "distances"
          /\ nav_threads' = [nav_threads EXCEPT ![t] =
                [@ EXCEPT !.pc = "names", !.encs = known_encodings]]
    /\ UNCHANGED << known_encodings, known_names, cacheFile, clock, frame_counter,
                    last_refresh, engine_loads, navOtherVars >>

\* match_face_encoding, lines 336-341: self._known_names is fetched for the
\* length check and the look-up; analyze_frame appends the result and goes
\* on to the next face, or to the refresh check after the last one.
NavMatchNames ==
    /\ \E t \in 1..Len(nav_threads) :
          LET thread == nav_threads[t]
              face   == thread.faces[thread.i]
              match  == match_face_encoding(thread.encs, known_names, match_threshold,
                                            face.encoding)
          IN  /\ thread.pc = "names"
              /\ nav_threads' = [nav_threads EXCEPT ![t] =
                    [@ EXCEPT !.pc = IF thread.i = Len(thread.faces)
                                     THEN "refresh_check" ELSE "distances",
                              !.i = thread.i + 1,
                              !.reads = Append(@, Loaded(thread.encs, known_names)),
                              !.results = Append(@, RecognitionResult(match,
                                                        ScaledBox(face.location)))]]
    /\ UNCHANGED << known_encodings, known_names, cacheFile, clock, frame_counter,
                    last_refresh, engine_loads, navOtherVars >>

\* analyze_frame, lines 386-388, and refresh_known_faces up to its
\* assignments (lines 317-320): when the refresh is due the lists are
\* loaded into locals.
NavRefreshLoad ==
    /\ \E t \in 1..Len(nav_threads) :
          /\ nav_threads[t].pc = "refresh_check"
          /\ IF should_refresh(clock, last_refresh)
             THEN \E db \in NavDbStates :
                     LET load == load_encodings(FALSE, db, cacheDir, cacheFile)
                     IN  /\ cacheFile' = load.file
                         /\ nav_threads' = [nav_threads EXCEPT ![t] =
                               [@ EXCEPT !.pc = IF load.raised THEN "done"
                                                ELSE "assign_encodings",
                                         !.loaded = Loaded(load.encodings, load.names)]]
                         /\ engine_loads' =
                               IF load.raised THEN engine_loads
                               ELSE engine_loads \cup { Loaded(load.encodings, load.names) }
             ELSE /\ nav_threads' = [nav_threads EXCEPT ![t] = [@ EXCEPT !.pc = "done"]]
                  /\ UNCHANGED << cacheFile, engine_loads >>
    /\ UNCHANGED << known_encodings, known_names, clock, frame_counter, last_refresh,
                    navOtherVars >>

\* refresh_known_faces, line 321: self._known_encodings = encodings.
NavAssignEncodings ==
    /\ \E t \in 1..Len(nav_threads) :
          /\ nav_threads[t].pc = "assign_encodings"
          /\ known_encodings' = nav_threads[t].loaded.encodings
          /\ nav_threads' = [nav_threads EXCEPT ![t] = [@ EXCEPT !.pc = "assign_names"]]
    /\ UNCHANGED << known_names, cacheFile, clock, frame_counter, last_refresh,
                    engine_loads, navOtherVars >>

\* refresh_known_faces, lines 322-323: self._known_names = names and
\* self._last_refresh = time.time().
NavAssignNames ==
    /\ \E t \in 1..Len(nav_threads) :
          /\ nav_threads[t].pc = "assign_names"
          /\ known_names' = nav_threads[t].loaded.names
          /\ last_refresh' = clock
          /\ nav_threads' = [nav_threads EXCEPT ![t] = [@ EXCEPT !.pc = "done"]]
    /\ UNCHANGED << known_encodings, cacheFile, clock, frame_counter, engine_loads,
                    navOtherVars >>

\* The application just imported: RobotController() has constructed
\* FaceRecognitionEngine(frame_skip=1), whose first load found enrolled
\* people.
InitNav ==
    /\ program = "core"
    /\ match_threshold = MATCH_THRESHOLD
    /\ lastMatch = NoMatch
    /\ cacheDir = "ok"
    /\ lastLoad = NoLoad
    /\ \E db \in NavDbStates :
          LET load == load_encodings(FALSE, db, "ok", AbsentFile)
          IN  /\ known_encodings = load.encodings
              /\ known_names = load.names
              /\ cacheFile = load.file
              /\ engine_loads = { Loaded(load.encodings, load.names) }
    /\ TrackerIdle
    /\ HttpIdle
    /\ frame_skip = Max(1, 1)
    /\ frame_counter = 0
    /\ last_refresh = 0
    /\ lastAnalyze = NoAnalyze
    /\ camera_backend = None
    /\ failure_count = 0
    /\ loop_pc = "running"
    /\ lastCapture = NoCapture
    /\ lastCache = NoCacheOp
    /\ MoveIdle
    /\ nav_threads = << >>

NextNav ==
    \/ SetGoal
    \/ ServerTimePasses
    \/ NavAnalyzeFrame
    \/ NavMatchDistances
    \/ NavMatchNames
    \/ NavRefreshLoad
    \/ NavAssignEncodings
    \/ NavAssignNames

SpecNav == InitNav /\ [][NextNav]_vars

(***************************************************************************)
(* Claims about the known set seen by the matcher.                         *)
(***************************************************************************)
\* C26: every match call of every analyze_frame call read an encodings list
\* and an identities list that one load returned together, and all the match
\* calls of one frame read the same pair of lists.
C26_ConsistentSnapshot ==
    \A t \in 1..Len(nav_threads) :
        \A k \in 1..Len(nav_threads[t].reads) :
            /\ nav_threads[t].reads[k] \in engine_loads
            /\ nav_threads[t].reads[k] = nav_threads[t].reads[1]

====
